---- MODULE Spec2Model ----
(***************************************************************************)
(* A model of the report-parsing core of MCYJ-Datapipeline:                *)
(*   special_report_parsing/parse_special_reports.py                       *)
(*   structure_agnostic_parser.py                                          *)
(*   check_duplicate_consistency.py                                        *)
(* and of the text extraction that feeds it:                               *)
(*   pdf_parsing/extract_pdf_text.py                                       *)
(*                                                                         *)
(* A document text is a sequence of words.  A word is a whitespace-        *)
(* delimited phrase of the document ("INVESTIGATION", "R 400.1234",        *)
(* "APPLICABLE RULE", ...); what a regular expression of the source sees   *)
(* in a word is tabulated per word below, and a search of the source is a  *)
(* left-to-right scan over the words.  Every word occupies one cell of     *)
(* CellWidth characters, except the unmarked passage, which is as long as  *)
(* the block look-ahead of the source; character offsets of the source are *)
(* sums of cell widths.                                                    *)
(***************************************************************************)
EXTENDS Integers, Sequences, FiniteSets, TLC

VARIABLES
    text,               \* the document text handed to the operation
    pc,                 \* control point of the operation under way
    is_structure_B,     \* get_rule_codes: the detected structure
    rule_codes,         \* get_rule_codes: returned codes
    descriptions,       \* get_rule_codes: returned descriptions
    applicable_rules,   \* extract_rules_agnostic: citations of the block format
    rule_code_rules,    \* extract_rules_agnostic: citations of the tabular format
    all_rules,          \* extract_rules_agnostic: the raw citations
    unique_rules,       \* extract_rules_agnostic: returned codes
    unique_descriptions,    \* ... descriptions
    unique_conclusions,     \* ... conclusions
    unique_violations,      \* ... violation statuses
    duplicates,         \* extract_rules_agnostic: code -> number of mentions
    lines,              \* check_consistency: the records of the JSONL file
    line_no,            \* check_consistency: index of the next record to read
    inconsistent_docs,  \* check_consistency: the documents flagged so far
    total_docs,         \* check_consistency: documents analysed so far
    total_docs_with_dups,   \* ... of which with a code cited more than once
    record,             \* parse_single_record: the JSONL record given
    remaining_text,     \* chain extractor: the text not yet consumed
    allegations,        \* chain extractor: the four lists it returns
    investigations,
    analyses,
    conclusions,
    allegations_data,   \* parse_single_record: "allegations" of the result
    rules_data,         \* parse_single_record: "rules" of the result
    mismatch,           \* parse_single_record: "mismatch" of the result
    basic_info,         \* parse_single_record: "basic_info" of the result
    parsed_log,         \* the calls of parse_single_record made so far, with their results
    jsonl,              \* process_jsonl: the lines of the input file
    line_num,           \* process_jsonl: number of the next line to read
    info_rows,          \* process_jsonl: rows of output.csv
    violation_rows,     \* process_jsonl: rows of violations.csv
    rule_rows,          \* process_jsonl: rows of rules.csv
    collected_investigations,   \* process_jsonl: investigation numbers seen
    processed_count,    \* process_jsonl: the four counters (process_directory
    skipped_count,      \* keeps the three of the same names)
    duplicate_count,
    error_count,
    pdf_dir,            \* process_directory: the PDF files of the directory
    output_jsonl,       \* process_directory: the lines of the output file
    processed_ids,      \* process_directory: digests loaded at the start of the run
    pdf_files,          \* process_directory: the sorted list of files of the run
    idx,                \* process_directory: position in pdf_files
    runs,               \* runs of process_directory completed
    structure,          \* analyze_document_structures: headings of the document
    normalized,         \* ... its normalized signature
    structures          \* ... the signatures collected so far

ruleVars == <<is_structure_B, rule_codes, descriptions>>

agnosticVars == <<applicable_rules, rule_code_rules, all_rules, unique_rules,
                  unique_descriptions, unique_conclusions, unique_violations,
                  duplicates>>

consistencyVars == <<lines, line_no, inconsistent_docs, total_docs,
                     total_docs_with_dups>>

chainVars == <<remaining_text, allegations, investigations, analyses, conclusions>>

parseVars == <<record, allegations_data, rules_data, mismatch, basic_info>>

reparseVars == <<parsed_log>>

batchVars == <<jsonl, line_num, info_rows, violation_rows, rule_rows,
               collected_investigations, processed_count, skipped_count,
               duplicate_count, error_count>>

extractVars == <<pdf_dir, output_jsonl, processed_ids, pdf_files, idx, runs>>

normalizeVars == <<structure, normalized, structures>>

vars == <<text, pc, ruleVars, agnosticVars, consistencyVars, chainVars, parseVars,
          reparseVars, batchVars, extractVars, normalizeVars>>

(***************************************************************************)
(* Sequences                                                               *)
(***************************************************************************)
Min(a, b) == IF a <= b THEN a ELSE b

\* The element of a set of one element: a value computed once.
The(S) == CHOOSE x \in S : TRUE

Max(a, b) == IF a >= b THEN a ELSE b

\* s[a..b] as a sequence; empty when a > b.
Sub(s, a, b) == IF a > b THEN << >> ELSE SubSeq(s, a, b)

\* The elements of a sequence.
Range(s) == {s[i] : i \in 1..Len(s)}

\* The sequences over S of length 0..n.
SeqsUpTo(S, n) == UNION {[1..k -> S] : k \in 0..n}

\* The concatenation of a sequence of sequences.
RECURSIVE Flatten(_)
Flatten(ss) == IF ss = << >> THEN << >> ELSE Head(ss) \o Flatten(Tail(ss))

\* First index i in from..Len(s) with P(s[i]); 0 when there is none
\* (re.search scans left to right and reports the leftmost match).
FirstIdx(s, from, P(_)) ==
    LET hits == {i \in Max(from, 1)..Len(s) : P(s[i])}
    IN  IF hits = {} THEN 0 ELSE CHOOSE i \in hits : \A j \in hits : i <= j

\* A finite set of integers as an increasing sequence.
RECURSIVE Ascending(_)
Ascending(S) ==
    IF S = {} THEN << >>
    ELSE LET lo == CHOOSE i \in S : \A j \in S : i <= j
         IN  <<lo>> \o Ascending(S \ {lo})

\* All indices of s whose word satisfies P, in increasing order (re.finditer).
AllIdx(s, P(_)) == Ascending({i \in 1..Len(s) : P(s[i])})

(***************************************************************************)
(* Words: what the patterns of the source find in each word.               *)
(***************************************************************************)
\* A passage of running text without any marker, code or label, as long as
\* the look-ahead of a final block.
Passage == "...2000 characters of narrative..."

\* The marker spellings found in a word: the marker rendered, its letter
\* case, and the number of character errors (OCR substitutions) against it.
Sp(m, c, e) == [m |-> m, c |-> c, e |-> e]

Spellings(w) ==
    CASE w = "METHODOLOGY"        -> {Sp("METHODOLOGY", "upper", 0)}
      [] w = "Methodology"        -> {Sp("METHODOLOGY", "title", 0)}
      [] w = "ALLEGATION"         -> {Sp("ALLEGATION", "upper", 0)}
      [] w = "Allegation"         -> {Sp("ALLEGATION", "title", 0)}
      [] w = "INVESTIGATION"      -> {Sp("INVESTIGATION", "upper", 0)}
      [] w = "INVESTlGATION"      -> {Sp("INVESTIGATION", "upper", 1)}
      [] w = "lNVESTlGATION"      -> {Sp("INVESTIGATION", "upper", 2)}
      [] w = "Investigation"      -> {Sp("INVESTIGATION", "title", 0)}
      [] w = "investigation"      -> {Sp("INVESTIGATION", "lower", 0)}
      [] w = "SPECIAL INVESTIGATION REPORT" -> {Sp("INVESTIGATION", "upper", 0)}
      [] w = "Special Investigation Report" -> {Sp("INVESTIGATION", "title", 0)}
      [] w \in {"Investigation #: 2019C0114036", "Investigation #: 2020C0114001",
                "Investigation Number: 2019C0114036",
                "03/05/2020 Investigation initiated"} -> {Sp("INVESTIGATION", "title", 0)}
      [] w \in {"APPLICABLE RULE", "APPLICABLE"} -> {Sp("APPLICABLE", "upper", 0)}
      [] w = "Applicable Policy"  -> {Sp("APPLICABLE", "title", 0)}
      [] w = "applicable"         -> {Sp("APPLICABLE", "lower", 0)}
      [] w = "ANALYSIS"           -> {Sp("ANALYSIS", "upper", 0)}
      [] w = "Analysis"           -> {Sp("ANALYSIS", "title", 0)}
      [] w \in {"CONCLUSION", "CONCLUSION:"} -> {Sp("CONCLUSION", "upper", 0)}
      [] w \in {"Conclusion", "Conclusion:"} -> {Sp("CONCLUSION", "title", 0)}
      [] w = "VIOLATION"          -> {Sp("VIOLATION", "upper", 0)}
      [] w = "Violation"          -> {Sp("VIOLATION", "title", 0)}
      [] w = "ESTABLISHED"        -> {Sp("ESTABLISHED", "upper", 0)}
      [] w = "ESTABLlSHED"        -> {Sp("ESTABLISHED", "upper", 1)}
      [] w = "Established"        -> {Sp("ESTABLISHED", "title", 0)}
      [] w = "established"        -> {Sp("ESTABLISHED", "lower", 0)}
      [] w \in {"Violation established.", "Violation not established."} ->
            {Sp("VIOLATION", "title", 0), Sp("ESTABLISHED", "lower", 0)}
      [] OTHER                    -> {}

\* Characters in which the same word differs between two letter cases: a
\* title-case and a lower-case spelling differ in the initial only.
CaseDist(c1, c2) ==
    IF c1 = c2 THEN 0
    ELSE IF {c1, c2} = {"title", "lower"} THEN 1
    ELSE 8

\* The literal marker m, in letter case c, occurs in w (case-sensitive).
ExactCS(w, m, c) == Sp(m, c, 0) \in Spellings(w)

\* The literal marker m occurs in w under re.IGNORECASE.
ExactCI(w, m) == \E r \in Spellings(w) : r.m = m /\ r.e = 0

\* r'\bII\.' : the heading number II. (not the tail of III. or VIII.).
IsII(w) == w = "II."

\* r'\bIII\.' under re.IGNORECASE.
IsIII(w) == w = "III."

\* r'\s+INVESTIGATION' under re.IGNORECASE: the next word begins with it.
StartsInvestigationCI(w) == ExactCI(w, "INVESTIGATION")

\* r'([A-Z]+)' at the start of a word: its leading run of capitals ("" when
\* the word does not begin with a capital, so that the pattern fails there).
UpperRun(w) ==
    CASE w \in {"METHODOLOGY", "ALLEGATION", "INVESTIGATION", "ANALYSIS",
                "CONCLUSION", "VIOLATION", "ESTABLISHED", "APPLICABLE"} -> w
      [] w = "CONCLUSION:"      -> "CONCLUSION"
      [] w = "APPLICABLE RULE"  -> "APPLICABLE"
      [] w = "INVESTlGATION"    -> "INVEST"
      [] w = "ESTABLlSHED"      -> "ESTABL"
      [] w = "Methodology"      -> "M"
      [] w = "Allegation"       -> "A"
      [] w = "Investigation"    -> "I"
      [] w = "Analysis"         -> "A"
      [] w = "Applicable Policy" -> "A"
      [] w = "Conclusion"       -> "C"
      [] w = "Violation"        -> "V"
      [] w = "Established"      -> "E"
      [] w = "I."               -> "I"
      [] w = "II."              -> "II"
      [] w = "III."             -> "III"
      [] w \in {"IV.", "IV.RECOMMENDATION"}  -> "IV"
      [] w \in {"R 400.1234", "R 400.5678"} -> "R"
      [] w \in {"Rule Code & CCI Rule 400.1234", "Rule Code & CCI Rule 400.5678",
                "Rule Code Placement"} -> "R"
      [] w = "FOM 722-03D"      -> "FOM"
      [] w = "NOT"              -> "NOT"
      [] w = "SPECIAL INVESTIGATION REPORT" -> "SPECIAL"
      [] w = "Special Investigation Report" -> "S"
      [] w \in {"Violation established.", "Violation not established."} -> "V"
      [] w \in {"Investigation #: 2019C0114036", "Investigation #: 2020C0114001",
                "Investigation Number: 2019C0114036"} -> "I"
      [] w = "SIR #: 2020A0215001" -> "SIR"
      [] w \in {"License #: CB250201234", "License Status: REGULAR",
                "Licensee Name: Oak Agency Inc", "Licensee Group Organization: Oak Group",
                "Licensee Address: 2 Elm St / Detroit MI 48201-1234",
                "Licensee Telephone #: 517-555-0199",
                "Licensee Designee: Bob Ray Chief Administrator: Ann Lee",
                "Licensee Designee: Bob Ray Administrator: Ann Lee"} -> "L"
      [] w \in {"Agency Name: Oak Agency", "Agency Address: 3 Oak Ave / Flint MI 48502",
                "Administrator: Ann Lee Licensee Designee: Bob Ray"} -> "A"
      [] w \in {"Capacity: 12", "Complaint Receipt Date: 03/04/2020"} -> "C"
      [] w \in {"Effective Date: 01/01/2020", "Expiration Date: 12/31/2021"} -> "E"
      [] w \in {"Facility Address: 1 Main St / Lansing MI 48933",
                "Facility Telephone #: (517) 555-0100"} -> "F"
      [] w = "Name of Facility: Maple House" -> "N"
      [] w = "Original Issuance Date: 6/1/15" -> "O"
      [] w = "Program Type: CHILD CARING INSTITUTION" -> "P"
      [] w = "July 14, 2020" -> "J"
      [] w \in {"RECOMMENDATION", "RECOMMENDATION I recommend no change ____"} ->
            "RECOMMENDATION"
      [] OTHER                  -> ""

\* str.startswith('METHODOLOGY') of a run of capitals.
StartsWithMETHODOLOGY(run) == run = "METHODOLOGY"

\* r"applicable (?:rule|policy)" under re.IGNORECASE, and the test
\* "applicable rule" in s.lower() or "applicable policy" in s.lower().
IsBlockStart(w) == w \in {"APPLICABLE RULE", "Applicable Policy"}

\* r"(?:R\s+)?(\d{3}\.\d+)": the decimal code in a word, "" when it has none.
DecimalCode(w) ==
    CASE w \in {"R 400.1234", "400.1234", "Rule Code & CCI Rule 400.1234"} -> "400.1234"
      [] w \in {"R 400.5678", "400.5678", "Rule Code & CCI Rule 400.5678"} -> "400.5678"
      [] OTHER -> ""

\* "FOM " + the group of r"FOM\s+(\d+-\d+[A-Z]?)" (re.IGNORECASE); "" when absent.
FomCode(w) == IF w = "FOM 722-03D" THEN "FOM 722-03D" ELSE ""

\* r"Rule Code\s+(?:&\s+)?(?:[A-Z]{2,4}\s+)?(?:Rule|R)\s+(\d{3}\.\d+)"
IsStrictRuleCode(w) ==
    w \in {"Rule Code & CCI Rule 400.1234", "Rule Code & CCI Rule 400.5678"}

\* r"\bR\s+(\d{3}\.\d+)"
IsBareR(w) == w \in {"R 400.1234", "R 400.5678"}

\* r"analysis|conclusion" under re.IGNORECASE.
HasAnalysisOrConclusion(w) == ExactCI(w, "ANALYSIS") \/ ExactCI(w, "CONCLUSION")

\* r"anaylsis" under re.IGNORECASE (the typo the source provides for).
HasAnaylsis(w) == w \in {"ANAYLSIS", "Anaylsis"}

\* r"Violation|Rule Code" (case-sensitive).
HasViolationOrRuleCode(w) ==
    \/ ExactCS(w, "VIOLATION", "title")
    \/ w \in {"Rule Code & CCI Rule 400.1234", "Rule Code & CCI Rule 400.5678",
              "Rule Code Placement"}

\* "II" or "ll" occurs in the word: r"(?:II|ll)".
ContainsII(w) == w \in {"II.", "III.", "Allegation"}

\* "III" or "lll" occurs in the word: r"(?:III|lll)".
ContainsIII(w) == w = "III."

\* "IV" or "lV" occurs in the word: r"(?:IV|lV)".
ContainsIV(w) == w \in {"IV.", "IV.RECOMMENDATION"}

(***************************************************************************)
(* Character offsets                                                       *)
(***************************************************************************)
\* structure_agnostic_parser.py: characters of context kept before a match.
DescBefore == 50

\* structure_agnostic_parser.py: characters of context kept after a match.
DescAfter == 200

\* structure_agnostic_parser.py: look-ahead that closes the final block.
Lookahead == 2000

\* parse_special_reports.py: span of a rule section with no delimiter.
DefaultSpan == 500

\* parse_special_reports.py: characters skipped before looking for the end
\* of a tabular rule section.
SkipChars == 20

\* A cell is as wide as the shortest window of the source, so that every
\* window of the source is a whole number of cells.
CellWidth == DescBefore

Width(w) == IF w = Passage THEN Lookahead ELSE CellWidth

RECURSIVE TextLen(_)
TextLen(s) == IF s = << >> THEN 0 ELSE Width(Head(s)) + TextLen(Tail(s))

\* Character offset at which word i of s starts (0-based, as m.start()).
Off(s, i) == TextLen(Sub(s, 1, i - 1))

\* Character offset just after word i of s (as m.end()).
EndOff(s, i) == Off(s, i) + Width(s[i])

\* s[a:b] by character offsets: the words lying, wholly or in part, in [a, b).
CharSlice(s, a, b) ==
    LET in == {i \in 1..Len(s) : Off(s, i) < b /\ EndOff(s, i) > a}
    IN  IF in = {} THEN << >>
        ELSE Sub(s, CHOOSE i \in in : \A j \in in : i <= j,
                    CHOOSE i \in in : \A j \in in : i >= j)

(***************************************************************************)
(* get_rule_codes (parse_special_reports.py)                               *)
(***************************************************************************)
\* A plausible slip: the FOM pattern is tried before the decimal one.
CodeOfFomFirst(section) ==
    LET d == FirstIdx(section, 1, LAMBDA w : DecimalCode(w) # "")
        f == FirstIdx(section, 1, LAMBDA w : FomCode(w) # "")
    IN  IF f # 0 THEN FomCode(section[f])
        ELSE IF d # 0 THEN DecimalCode(section[d])
        ELSE ""

\* First decimal code of a word sequence, else its first FOM code, else "".
CodeOf(section) ==
    LET d == FirstIdx(section, 1, LAMBDA w : DecimalCode(w) # "")
        f == FirstIdx(section, 1, LAMBDA w : FomCode(w) # "")
    IN  IF d # 0 THEN DecimalCode(section[d])
        ELSE IF f # 0 THEN FomCode(section[f])
        ELSE ""

\* End offset of the rule section opened at word i: the next "analysis" or
\* "conclusion", else the next "anaylsis", else 500 characters on.
ApplicableEnd(s, i) ==
    LET a == FirstIdx(s, i, HasAnalysisOrConclusion)
        t == FirstIdx(s, i, HasAnaylsis)
    IN  IF a # 0 THEN Off(s, a)
        ELSE IF t # 0 THEN Off(s, t)
        ELSE Off(s, i) + DefaultSpan

\* _extract_applicable_rule_format: <<rule_codes, descriptions>>.
RECURSIVE ApplicableRuleFrom(_, _)
ApplicableRuleFrom(s, idxs) ==
    IF idxs = << >> THEN << << >>, << >> >>
    ELSE LET i    == Head(idxs)
             sect == CharSlice(s, Off(s, i), ApplicableEnd(s, i))
             rest == ApplicableRuleFrom(s, Tail(idxs))
         IN  IF CodeOf(sect) = "" THEN rest
             ELSE << <<CodeOf(sect)>> \o rest[1], <<sect>> \o rest[2] >>

extract_applicable_rule_format(s) ==
    ApplicableRuleFrom(s, AllIdx(s, IsBlockStart))

\* End offset of the tabular rule section matched at word m.
RuleCodeEnd(s, m) ==
    LET hits == {k \in 1..Len(s) : /\ Off(s, k) >= Off(s, m) + SkipChars
                                   /\ HasViolationOrRuleCode(s[k])}
    IN  IF hits # {} THEN Off(s, CHOOSE k \in hits : \A l \in hits : k <= l)
        ELSE Min(Off(s, m) + DefaultSpan, TextLen(s))

RECURSIVE RuleCodeFrom(_, _)
RuleCodeFrom(s, idxs) ==
    IF idxs = << >> THEN << << >>, << >> >>
    ELSE LET m    == Head(idxs)
             rest == RuleCodeFrom(s, Tail(idxs))
         IN  << <<DecimalCode(s[m])>> \o rest[1],
                <<CharSlice(s, Off(s, m), RuleCodeEnd(s, m))>> \o rest[2] >>

\* A plausible slip: the fallback is run whatever the strict pattern found,
\* and its matches are taken in together with the strict ones.
RuleCodeMatchesMixed(s) ==
    AllIdx(s, LAMBDA w : IsStrictRuleCode(w) \/ IsBareR(w))

\* The matches of the strict pattern, or of the fallback when it has none.
RuleCodeMatches(s) ==
    LET strict == AllIdx(s, IsStrictRuleCode)
    IN  IF strict # << >> THEN strict ELSE AllIdx(s, IsBareR)

\* _extract_rule_code_format: <<rule_codes, descriptions>>.
extract_rule_code_format(s) == RuleCodeFrom(s, RuleCodeMatches(s))

\* bool(re.search(r'\bIII\.\s+INVESTIGATION', text, re.IGNORECASE))
has_section_III_investigation(s) ==
    \E i \in 1..(Len(s) - 1) : IsIII(s[i]) /\ StartsInvestigationCI(s[i + 1])

\* re.search(r'\bII\.\s+([A-Z]+)', text): index of the leftmost "II."
\* followed by a word beginning with a capital; 0 for None.
section_II_match(s) ==
    LET hits == {i \in 1..(Len(s) - 1) : IsII(s[i]) /\ UpperRun(s[i + 1]) # ""}
    IN  IF hits = {} THEN 0 ELSE CHOOSE i \in hits : \A j \in hits : i <= j

has_section_II_methodology(s) ==
    /\ section_II_match(s) # 0
    /\ StartsWithMETHODOLOGY(UpperRun(s[section_II_match(s) + 1]))

IsStructureB(s) ==
    has_section_II_methodology(s) /\ ~has_section_III_investigation(s)

\* section_match: the words after the leftmost opening numeral up to the
\* first closing numeral (or the end of the text); [found |-> FALSE] for None.
SectionMatch(s, Opens(_), Closes(_)) ==
    LET i == FirstIdx(s, 1, Opens)
        j == FirstIdx(s, i + 1, Closes)
    IN  IF i = 0 THEN [found |-> FALSE, section |-> << >>]
        ELSE [found |-> TRUE,
              section |-> Sub(s, i + 1, IF j = 0 THEN Len(s) ELSE j - 1)]

get_rule_codes(s) ==
    LET m == IF IsStructureB(s) THEN SectionMatch(s, ContainsII, ContainsIII)
                                ELSE SectionMatch(s, ContainsIII, ContainsIV)
    IN  IF ~m.found THEN << << >>, << >> >>
        ELSE IF \E k \in 1..Len(m.section) : IsBlockStart(m.section[k])
             THEN extract_applicable_rule_format(m.section)
             ELSE extract_rule_code_format(m.section)

(***************************************************************************)
(* extract_allegation_investigation_analysis_conclusion                    *)
(* (parse_special_reports.py)                                              *)
(***************************************************************************)
\* parse_special_reports.py: {e<2} admits fewer than 2 character errors.
FuzzyLimit == 2

\* (m){e<2} in letter case c, case-sensitive: a change of case is an error
\* per changed letter.
FuzzyCS(w, m, c) ==
    \E r \in Spellings(w) : r.m = m /\ r.e + CaseDist(r.c, c) < FuzzyLimit

\* (m){e<2} under re.IGNORECASE.
FuzzyCI(w, m) == \E r \in Spellings(w) : r.m = m /\ r.e < FuzzyLimit

\* r"\bmethodology\b" under re.IGNORECASE.
IsMethodology(w) == ExactCI(w, "METHODOLOGY")

\* r"\bIV\.\b": "IV." directly followed by a letter or digit; the heading
\* number followed by white space has no word boundary after its period.
IsIVStop(w) == w = "IV.RECOMMENDATION"

\* A word without letter or digit.
IsPunctuation(w) == w \in {":", "-"}

\* re.sub(r"^[^a-zA-Z0-9]+", "", x), and the [:\s]* after a marker.
RECURSIVE Clean(_)
Clean(ws) ==
    IF ws # << >> /\ IsPunctuation(Head(ws)) THEN Clean(Tail(ws)) ELSE ws

\* re.search(r"OPEN(.*?)CLOSE", s): the leftmost word i matching OPEN that
\* has a word matching CLOSE after it (from i itself when same), and the
\* first such word j; [found |-> FALSE] for None.
SpanIn(s, Opens(_), Closes(_), d) ==
    LET hits == {i \in 1..Len(s) :
                    Opens(s[i]) /\ \E j \in (i + d)..Len(s) : Closes(s[j])}
        i0   == CHOOSE i \in hits : \A k \in hits : i <= k
        ends == {j \in (i0 + d)..Len(s) : Closes(s[j])}
    IN  IF hits = {} THEN [found |-> FALSE, i |-> 0, j |-> 0]
        ELSE [found |-> TRUE, i |-> i0,
              j |-> CHOOSE j \in ends : \A k \in ends : j <= k]

SpanMatch(s, Opens(_), Closes(_), same) ==
    The({ SpanIn(x, Opens, Closes, IF same THEN 0 ELSE 1) : x \in {s} })

\* First of the matches that is found; the last one when none is.
FirstFoundIn(ms) ==
    LET hits == {k \in 1..Len(ms) : ms[k].found}
    IN  IF hits = {} THEN ms[Len(ms)] ELSE ms[CHOOSE k \in hits : \A l \in hits : k <= l]

FirstFound(ms) == The({ FirstFoundIn(m) : m \in {ms} })

\* Lines 144-150: the allegation, up to (not including) INVESTIGATION.
AllegationMatch(s) ==
    FirstFound(<<
        SpanMatch(s, LAMBDA w : ExactCS(w, "ALLEGATION", "upper"),
                     LAMBDA w : FuzzyCS(w, "INVESTIGATION", "upper"), FALSE),
        SpanMatch(s, LAMBDA w : ExactCS(w, "ALLEGATION", "title"),
                     LAMBDA w : FuzzyCS(w, "INVESTIGATION", "title"), FALSE) >>)

\* Lines 155-159: the investigation, up to APPLICABLE, else Analysis, else
\* (ignoring case) Conclusion.
InvestigationMatch(s) ==
    FirstFound(<<
        SpanMatch(s, LAMBDA w : FuzzyCS(w, "INVESTIGATION", "upper"),
                     LAMBDA w : FuzzyCS(w, "APPLICABLE", "upper"), FALSE),
        SpanMatch(s, LAMBDA w : FuzzyCS(w, "INVESTIGATION", "title"),
                     LAMBDA w : FuzzyCS(w, "ANALYSIS", "title"), FALSE),
        SpanMatch(s, LAMBDA w : FuzzyCI(w, "INVESTIGATION"),
                     LAMBDA w : FuzzyCI(w, "CONCLUSION"), FALSE) >>)

\* Lines 165-169: the analysis, up to CONCLUSION, else Conclusion, else
\* (ignoring case) VIOLATION.
AnalysisMatch(s) ==
    FirstFound(<<
        SpanMatch(s, LAMBDA w : FuzzyCS(w, "ANALYSIS", "upper"),
                     LAMBDA w : FuzzyCS(w, "CONCLUSION", "upper"), FALSE),
        SpanMatch(s, LAMBDA w : FuzzyCS(w, "ANALYSIS", "title"),
                     LAMBDA w : FuzzyCS(w, "CONCLUSION", "title"), FALSE),
        SpanMatch(s, LAMBDA w : FuzzyCI(w, "ANALYSIS"),
                     LAMBDA w : FuzzyCI(w, "VIOLATION"), FALSE) >>)

\* Lines 177-181: the conclusion, through ESTABLISHED (after CONCLUSION, else
\* from VIOLATION on), else through VIOLATION; "from" is its first word.
ConclusionMatch(s) ==
    LET m1 == SpanMatch(s, LAMBDA w : FuzzyCI(w, "CONCLUSION"),
                           LAMBDA w : FuzzyCI(w, "ESTABLISHED"), FALSE)
        m2 == SpanMatch(s, LAMBDA w : FuzzyCI(w, "VIOLATION"),
                           LAMBDA w : FuzzyCI(w, "ESTABLISHED"), TRUE)
        m3 == SpanMatch(s, LAMBDA w : FuzzyCI(w, "CONCLUSION"),
                           LAMBDA w : FuzzyCI(w, "VIOLATION"), FALSE)
    IN  IF m1.found THEN [found |-> TRUE, from |-> m1.i + 1, j |-> m1.j]
        ELSE IF m2.found THEN [found |-> TRUE, from |-> m2.i, j |-> m2.j]
        ELSE [found |-> m3.found, from |-> m3.i + 1, j |-> m3.j]

(***************************************************************************)
(* structure_agnostic_parser.py                                            *)
(***************************************************************************)
\* structure_agnostic_parser.py: characters of a block kept as description
\* when the block does not open with its label.
DescHead == 200

\* The string "N/A".
NA == <<"N/A">>

\* r'CONCLUSION:' under re.IGNORECASE: the label with its colon.
IsConclusionLabel(w) == w \in {"CONCLUSION:", "Conclusion:"}

\* "not" in word.lower()
ContainsNot(w) == w \in {"not", "NOT", "Not", "Violation not established."}

\* "established" in word.lower()
ContainsEstablished(w) == ExactCI(w, "ESTABLISHED")

\* "not" in conclusion.lower()
HasNot(c) == \E k \in 1..Len(c) : ContainsNot(c[k])

\* "established" in conclusion.lower()
HasEstablished(c) == \E k \in 1..Len(c) : ContainsEstablished(c[k])

\* The violation status the block extractors derive from a conclusion.
ViolationStatus(conclusion) ==
    IF conclusion = NA THEN "N/A"
    ELSE IF HasNot(conclusion) /\ HasEstablished(conclusion) THEN "No"
    ELSE IF HasEstablished(conclusion) THEN "Yes"
    ELSE "N/A"

\* End offset of the block opened at indices[k].
BlockEnd(s, indices, k) ==
    IF k + 1 <= Len(indices) THEN Off(s, indices[k + 1])
    ELSE Min(TextLen(s), Off(s, indices[k]) + Lookahead)

\* section_text of the block opened at indices[k].
BlockText(s, indices, k) == CharSlice(s, Off(s, indices[k]), BlockEnd(s, indices, k))

\* r'APPLICABLE (?:RULE|POLICY)(.*?)(?=ANALYSIS|CONCLUSION|$)'
BlockDescription(sect) ==
    LET b == FirstIdx(sect, 1, IsBlockStart)
        e == FirstIdx(sect, b + 1, HasAnalysisOrConclusion)
    IN  IF b = 0 THEN CharSlice(sect, 0, DescHead)
        ELSE Sub(sect, b + 1, IF e = 0 THEN Len(sect) ELSE e - 1)

\* r'CONCLUSION:\s*(.*?)(?=APPLICABLE|$)' : the words after the first label
\* up to the next word holding "applicable" (any case), else to the end.
BlockConclusion(sect) ==
    LET c == FirstIdx(sect, 1, IsConclusionLabel)
        a == FirstIdx(sect, c + 1, LAMBDA w : ExactCI(w, "APPLICABLE"))
    IN  IF c = 0 THEN NA
        ELSE Sub(sect, c + 1, IF a = 0 THEN Len(sect) ELSE a - 1)

\* One block of _extract_applicable_format_agnostic: its citation, if any.
BlockCitation(sect) ==
    IF CodeOf(sect) = "" THEN << >>
    ELSE << [rule_code   |-> CodeOf(sect),
             description |-> BlockDescription(sect),
             conclusion  |-> BlockConclusion(sect),
             violation   |-> ViolationStatus(BlockConclusion(sect))] >>

RECURSIVE BlockCitationsFrom(_, _, _)
BlockCitationsFrom(s, indices, k) ==
    IF k > Len(indices) THEN << >>
    ELSE BlockCitation(BlockText(s, indices, k)) \o BlockCitationsFrom(s, indices, k + 1)

extract_applicable_format_agnostic(s) ==
    BlockCitationsFrom(s, AllIdx(s, IsBlockStart), 1)

\* One match of the tabular pattern, with its context as description.
TabularCitation(s, m) ==
    [rule_code   |-> DecimalCode(s[m]),
     description |-> CharSlice(s, Max(0, Off(s, m) - DescBefore),
                                  Min(TextLen(s), EndOff(s, m) + DescAfter)),
     conclusion  |-> NA,
     violation   |-> "N/A"]

extract_rule_code_format_agnostic(s) ==
    LET ms == RuleCodeMatches(s)
    IN  [k \in 1..Len(ms) |-> TabularCitation(s, ms[k])]

\* The raw citations: the block format first, then the tabular format.
AllRules(s) ==
    extract_applicable_format_agnostic(s) \o extract_rule_code_format_agnostic(s)

\* A plausible slip: only the codes cited more than once are kept in the map.
DuplicatesRepeatedOnly(all) ==
    [c \in {all[i].rule_code : i \in {k \in 1..Len(all) :
                \E j \in 1..Len(all) : j # k /\ all[j].rule_code = all[k].rule_code}} |->
        Cardinality({i \in 1..Len(all) : all[i].rule_code = c})]

\* Lines 35-37: the loop that counts, from the map d built so far.
RECURSIVE Tally(_, _)
Tally(all, d) ==
    IF all = << >> THEN d
    ELSE IF Head(all).rule_code \in DOMAIN d
    THEN Tally(Tail(all), [d EXCEPT ![Head(all).rule_code] = @ + 1])
    ELSE Tally(Tail(all), d @@ (Head(all).rule_code :> 1))

\* The code -> count map built before deduplication (lines 34-37).
Duplicates(all) == Tally(all, [c \in {} |-> 0])

\* A plausible slip: the code is "normalised" while deduplicating.
RECURSIVE UniqueNormalised(_, _)
UniqueNormalised(all, seen) ==
    IF all = << >> THEN << >>
    ELSE LET r == Head(all)
             n == IF r.rule_code = "FOM 722-03D" THEN "722-03D" ELSE r.rule_code
         IN  IF n \in seen THEN UniqueNormalised(Tail(all), seen)
             ELSE <<[r EXCEPT !.rule_code = n]>> \o UniqueNormalised(Tail(all), seen \cup {n})

\* A plausible slip: a later mention replaces the one kept for its code.
RECURSIVE UniqueKeepLast(_, _)
UniqueKeepLast(all, seen) ==
    IF all = << >> THEN << >>
    ELSE LET r == Head(all)
             later == \E i \in 2..Len(all) : all[i].rule_code = r.rule_code
         IN  IF later THEN UniqueKeepLast(Tail(all), seen)
             ELSE <<r>> \o UniqueKeepLast(Tail(all), seen)

\* The deduplication loop: the citations kept, given the codes seen so far.
RECURSIVE Unique(_, _)
Unique(all, seen) ==
    IF all = << >> THEN << >>
    ELSE LET r == Head(all)
         IN  IF r.rule_code \in seen THEN Unique(Tail(all), seen)
             ELSE <<r>> \o Unique(Tail(all), seen \cup {r.rule_code})

\* The outcome of a turn of the loop: "break" when no allegation is left,
\* "error" when .group(1) is called on None (lines 160, 182), else "quad"
\* with the four texts; remaining is the text the turn leaves.
TurnEnds(kind, rem) ==
    [kind |-> kind, remaining |-> rem, allegation |-> << >>,
     investigation |-> << >>, analysis |-> << >>, conclusion |-> << >>]

\* A plausible slip: the cursor is set to where the conclusion begins, not to
\* where its match ends, so that the conclusion is searched again.
ConclusionStepRescans(s3, allegation, investigation, analysis) ==
    LET d == ConclusionMatch(s3)
    IN  IF ~d.found THEN TurnEnds("error", s3)
        ELSE [kind |-> "quad", remaining |-> Sub(s3, d.from, Len(s3)),
              allegation |-> allegation, investigation |-> investigation,
              analysis |-> analysis, conclusion |-> Sub(s3, d.from, d.j)]

\* Lines 177-184, given the texts found so far.
ConclusionStep(s3, allegation, investigation, analysis) ==
    The({ IF ~d.found THEN TurnEnds("error", s3)
          ELSE [kind |-> "quad", remaining |-> Sub(s3, d.j + 1, Len(s3)),
                allegation |-> allegation, investigation |-> investigation,
                analysis |-> analysis, conclusion |-> Sub(s3, d.from, d.j)] :
          d \in {ConclusionMatch(s3)} })

\* A plausible slip: the analysis is required like the other three, and a
\* turn without it ends the loop.
AnalysisStepRequired(s2, allegation, investigation) ==
    LET c == AnalysisMatch(s2)
    IN  IF ~c.found THEN TurnEnds("error", s2)
        ELSE ConclusionStep(Sub(s2, c.j, Len(s2)), allegation, investigation,
                            Clean(Sub(s2, c.i + 1, c.j - 1)))

\* Lines 165-174: without a match the analysis is "" and nothing is consumed.
AnalysisStep(s2, allegation, investigation) ==
    The({ IF ~c.found THEN ConclusionStep(s2, allegation, investigation, << >>)
          ELSE ConclusionStep(Sub(s2, c.j, Len(s2)), allegation, investigation,
                              Clean(Sub(s2, c.i + 1, c.j - 1))) :
          c \in {AnalysisMatch(s2)} })

\* Lines 155-162.
InvestigationStep(s1, allegation) ==
    The({ IF ~b.found THEN TurnEnds("error", s1)
          ELSE AnalysisStep(Sub(s1, b.j, Len(s1)), allegation,
                            Clean(Sub(s1, b.i + 1, b.j - 1))) :
          b \in {InvestigationMatch(s1)} })

\* A plausible slip: the result lists are kept from call to call (a module
\* variable, or a mutable default argument) and not made anew.
KeptList(old) == old

\* allegations = [] and the like (lines 136-139): a list made anew by every
\* call, whatever an earlier call left.
NewList(old) == << >>

\* One turn of the loop (lines 142-184).
ChainTurn(s) ==
    The({ IF ~a.found THEN TurnEnds("break", s)
          ELSE InvestigationStep(Sub(s, a.j, Len(s)), Sub(s, a.i + 1, a.j - 1)) :
          a \in {AllegationMatch(s)} })

\* A plausible slip: no handler around the turn, the error leaves the loop.
ExceptPropagates(kind) ==
    IF kind = "quad" THEN "chain_loop"
    ELSE IF kind = "error" THEN "raised"
    ELSE "chain_returned"

\* A plausible slip: the break is lost, a turn that finds no allegation is
\* followed by another.
AfterTurnNoBreak(kind) == IF kind = "error" THEN "chain_returned" ELSE "chain_loop"

\* Where control goes after a turn: on, or out of the loop by break, also
\* from the handler of line 190.
AfterTurn(kind) == IF kind = "quad" THEN "chain_loop" ELSE "chain_returned"

(***************************************************************************)
(* Header fields (parse_special_reports.py, lines 24-118 and 357-389)      *)
(*                                                                         *)
(* A labelled line of the report ("Capacity: 12") is one word.  What each  *)
(* pattern of the source captures in a word is tabulated in Captures: the  *)
(* field, the ordinal of the pattern among the alternatives tried for the  *)
(* field, and the captured group after .strip().                           *)
(***************************************************************************)
Cap(f, p, v) == [f |-> f, p |-> p, v |-> v]

Captures(w) ==
    CASE w = "License #: CB250201234" -> {Cap("License #", 1, "CB250201234")}
      [] w = "Investigation #: 2019C0114036" -> {Cap("Investigation #", 1, "2019C0114036")}
      [] w = "Investigation #: 2020C0114001" -> {Cap("Investigation #", 1, "2020C0114001")}
      [] w = "SIR #: 2020A0215001" -> {Cap("Investigation #", 3, "2020A0215001")}
      [] w = "Investigation Number: 2019C0114036" ->
            {Cap("Investigation #", 4, "2019C0114036"), Cap("Investigation #", 7, "Number")}
      [] w = "SPECIAL INVESTIGATION REPORT" -> {Cap("Investigation #", 7, "REPORT")}
      [] w = "Special Investigation Report" -> {Cap("Investigation #", 7, "Report")}
      [] w = "03/05/2020 Investigation initiated" -> {Cap("Investigation #", 7, "initiated")}
      [] w = "Name of Facility: Maple House" -> {Cap("Facility Name", 1, "Maple House")}
      [] w = "Agency Name: Oak Agency" -> {Cap("Facility Name", 2, "Oak Agency")}
      [] w = "Capacity: 12" -> {Cap("Capacity", 1, "12")}
      [] w = "Effective Date: 01/01/2020" -> {Cap("Effective Date", 1, "01/01/2020")}
      [] w = "Expiration Date: 12/31/2021" -> {Cap("Expiration Date", 1, "12/31/2021")}
      [] w = "Original Issuance Date: 6/1/15" -> {Cap("Original Issuance Date", 1, "6/1/15")}
      [] w = "Facility Address: 1 Main St / Lansing MI 48933" ->
            {Cap("Facility Address", 1, "1 Main St Lansing MI 48933")}
      [] w = "Agency Address: 3 Oak Ave / Flint MI 48502" ->
            {Cap("Facility Address", 2, "3 Oak Ave Flint MI 48502")}
      [] w = "Licensee Address: 2 Elm St / Detroit MI 48201-1234" ->
            {Cap("Licensee Address", 1, "2 Elm St Detroit MI 48201-1234")}
      [] w = "Facility Telephone #: (517) 555-0100" ->
            {Cap("Facility Telephone #", 1, "(517) 555-0100")}
      [] w = "Licensee Telephone #: 517-555-0199" ->
            {Cap("Licensee Telephone #", 1, "517-555-0199")}
      [] w = "License Status: REGULAR" -> {Cap("License Status", 1, "REGULAR")}
      [] w = "Licensee Name: Oak Agency Inc" -> {Cap("Licensee Name", 1, "Oak Agency Inc")}
      [] w = "Licensee Group Organization: Oak Group" ->
            {Cap("Licensee Name", 2, "Oak Group")}
      [] w = "Program Type: CHILD CARING INSTITUTION" ->
            {Cap("Program Type", 1, "CHILD CARING INSTITUTION")}
      [] OTHER -> {}

\* The fields whose pattern ends in r"(.*?)\n": the line must be followed by
\* a line break, which the last line of the text is not.
EndsWithNewline(f) == f \in {"Facility Name", "Licensee Name", "Program Type"}

\* A plausible slip: a field without match is reported as "N/A", as the rule
\* extractors report a missing conclusion.
extractOrNA(s, f, p) ==
    LET i == FirstIdx(s, 1, LAMBDA w : \E c \in Captures(w) : c.f = f /\ c.p = p)
    IN  IF i = 0 \/ (EndsWithNewline(f) /\ i = Len(s)) THEN "N/A"
        ELSE (CHOOSE c \in Captures(s[i]) : c.f = f /\ c.p = p).v

\* extract(pattern, text): the capture of the first word the p-th pattern of
\* field f matches, "" when no word matches (lines 24-26).
extract(s, f, p) ==
    LET i == FirstIdx(s, 1, LAMBDA w : \E c \in Captures(w) : c.f = f /\ c.p = p)
    IN  IF i = 0 \/ (EndsWithNewline(f) /\ i = Len(s)) THEN ""
        ELSE (CHOOSE c \in Captures(s[i]) : c.f = f /\ c.p = p).v

\* extract(p1) or extract(p2) or ... : the first of the patterns from..n of
\* field f that captures a non-empty text.
RECURSIVE FirstOf(_, _, _, _)
FirstOf(s, f, from, n) ==
    IF from > n THEN ""
    ELSE IF extract(s, f, from) # "" THEN extract(s, f, from)
    ELSE FirstOf(s, f, from + 1, n)

\* The leading run of letters and digits of a word: r"([0-9A-Z]+)" under
\* re.IGNORECASE at its start.
LeadingAlnum(w) ==
    CASE w \in {":", "-", Passage}                 -> ""
      [] w \in {"CONCLUSION:", "Conclusion:"}      -> IF w = "CONCLUSION:" THEN "CONCLUSION" ELSE "Conclusion"
      [] w = "I."                                  -> "I"
      [] w = "II."                                 -> "II"
      [] w = "III."                                -> "III"
      [] w \in {"IV.", "IV.RECOMMENDATION"}        -> "IV"
      [] w \in {"R 400.1234", "R 400.5678"}        -> "R"
      [] w \in {"400.1234", "400.5678"}            -> "400"
      [] w = "FOM 722-03D"                         -> "FOM"
      [] w = "APPLICABLE RULE"                     -> "APPLICABLE"
      [] w = "Applicable Policy"                   -> "Applicable"
      [] w \in {"Rule Code & CCI Rule 400.1234", "Rule Code & CCI Rule 400.5678",
                "Rule Code Placement"}             -> "Rule"
      [] w = "SPECIAL INVESTIGATION REPORT"        -> "SPECIAL"
      [] w = "Special Investigation Report"        -> "Special"
      [] w \in {"Violation established.", "Violation not established."} -> "Violation"
      [] w = "July 14, 2020"                       -> "July"
      [] w \in {"03/04/2020 Complaint received", "03/05/2020 Investigation initiated"} -> "03"
      [] w = "3/2/20 Contact"                      -> "3"
      [] w = "RECOMMENDATION I recommend no change ____" -> "RECOMMENDATION"
      [] w \in {"Administrator: Ann Lee Licensee Designee: Bob Ray"} -> "Administrator"
      [] w \in {"Licensee Designee: Bob Ray Chief Administrator: Ann Lee",
                "Licensee Designee: Bob Ray Administrator: Ann Lee"} -> "Licensee"
      [] Captures(w) # {} /\ w \notin {"SPECIAL INVESTIGATION REPORT",
                                       "Special Investigation Report"} ->
            CASE w = "SIR #: 2020A0215001" -> "SIR"
              [] w \in {"Investigation #: 2019C0114036", "Investigation #: 2020C0114001",
                        "Investigation Number: 2019C0114036"} -> "Investigation"
              [] w = "Name of Facility: Maple House" -> "Name"
              [] w \in {"Agency Name: Oak Agency", "Agency Address: 3 Oak Ave / Flint MI 48502"} -> "Agency"
              [] w = "Capacity: 12" -> "Capacity"
              [] w = "Effective Date: 01/01/2020" -> "Effective"
              [] w = "Expiration Date: 12/31/2021" -> "Expiration"
              [] w = "Original Issuance Date: 6/1/15" -> "Original"
              [] w \in {"Facility Address: 1 Main St / Lansing MI 48933",
                        "Facility Telephone #: (517) 555-0100"} -> "Facility"
              [] w = "Program Type: CHILD CARING INSTITUTION" -> "Program"
              [] w \in {"License #: CB250201234", "License Status: REGULAR"} -> "License"
              [] OTHER -> "Licensee"
      [] w = "Complaint Receipt Date: 03/04/2020"  -> "Complaint"
      [] OTHER                                     -> w

\* The word ends with the letters "investigation" (any case), so that what
\* r"Investigation\s*:?\s*([0-9A-Z]+)" captures is in the words after it.
EndsWithInvestigation(w) == w \in {"INVESTIGATION", "Investigation", "investigation"}

\* What r"Investigation\s*:?\s*([0-9A-Z]+)" (re.IGNORECASE) captures when it
\* matches at word i: inside the word, or at the start of the next word, one
\* colon allowed between; "" when it does not match there.
BroadCaptureAt(s, i) ==
    IF \E c \in Captures(s[i]) : c.f = "Investigation #" /\ c.p = 7
    THEN (CHOOSE c \in Captures(s[i]) : c.f = "Investigation #" /\ c.p = 7).v
    ELSE IF ~EndsWithInvestigation(s[i]) \/ i = Len(s) THEN ""
    ELSE IF s[i + 1] # ":" THEN LeadingAlnum(s[i + 1])
    ELSE IF i + 1 = Len(s) THEN ""
    ELSE LeadingAlnum(s[i + 2])

\* extract(r"Investigation\s*:?\s*([0-9A-Z]+)", text): the broad pattern that
\* process_jsonl tries last (line 471).
BroadInvestigationNumber(s) ==
    LET hits == {i \in 1..Len(s) : BroadCaptureAt(s, i) # ""}
    IN  IF hits = {} THEN ""
        ELSE BroadCaptureAt(s, CHOOSE i \in hits : \A j \in hits : i <= j)

\* str.lower() of a captured license status.
Lower(v) ==
    CASE v = "REGULAR" -> "regular"
      [] v = ""        -> ""
      [] OTHER         -> v

\* The first date of a word: as written, whether its year has four digits,
\* the day it denotes as yyyymmdd, strftime("%m/%d/%Y") of that day, and
\* the offset in the word at which the date ends (-1: the word has no date).
NoDate == [raw |-> "", y4 |-> FALSE, slash |-> FALSE, day |-> 0, fmt |-> "", end |-> 0 - 1]

DateIn(w) ==
    CASE w \in {"03/04/2020 Complaint received", "Complaint Receipt Date: 03/04/2020"} ->
            [raw |-> "03/04/2020", y4 |-> TRUE, slash |-> TRUE, day |-> 20200304,
             fmt |-> "03/04/2020", end |-> IF w = "03/04/2020 Complaint received" THEN 10 ELSE 34]
      [] w = "03/05/2020 Investigation initiated" ->
            [raw |-> "03/05/2020", y4 |-> TRUE, slash |-> TRUE, day |-> 20200305,
             fmt |-> "03/05/2020", end |-> 10]
      [] w = "3/2/20 Contact" ->
            [raw |-> "3/2/20", y4 |-> FALSE, slash |-> TRUE, day |-> 20200302,
             fmt |-> "03/02/2020", end |-> 6]
      [] w = "Effective Date: 01/01/2020" ->
            [raw |-> "01/01/2020", y4 |-> TRUE, slash |-> TRUE, day |-> 20200101,
             fmt |-> "01/01/2020", end |-> 26]
      [] w = "Expiration Date: 12/31/2021" ->
            [raw |-> "12/31/2021", y4 |-> TRUE, slash |-> TRUE, day |-> 20211231,
             fmt |-> "12/31/2021", end |-> 27]
      [] w = "Original Issuance Date: 6/1/15" ->
            [raw |-> "6/1/15", y4 |-> FALSE, slash |-> TRUE, day |-> 20150601,
             fmt |-> "06/01/2015", end |-> 30]
      [] w = "July 14, 2020" ->
            [raw |-> "July 14, 2020", y4 |-> TRUE, slash |-> FALSE, day |-> 20200714,
             fmt |-> "07/14/2020", end |-> 13]
      [] OTHER -> NoDate

\* extract_final_report_date (lines 59-68): the first date written with a
\* month name or with a four-digit year.
extract_final_report_date(s) ==
    LET i == FirstIdx(s, 1, LAMBDA w : DateIn(w).y4)
    IN  IF i = 0 THEN "" ELSE DateIn(s[i]).raw

\* r"III\.|lll\." under (?i): the word that closes the methodology section.
ClosesMethodology(w) == w = "III."

\* The words of the section that follows the heading word at h, up to the
\* close of the section or the end of the text (lines 78, 106-110).
MethodologySection(s, h) ==
    LET e == FirstIdx(s, h + 1, ClosesMethodology)
    IN  Sub(s, h + 1, IF e = 0 THEN Len(s) ELSE e - 1)

\* The word at which r"\bII\.\s*METHODOLOGY\b" (?i) ends; 0 when absent.
HeadingIIMethodologyAt(s) ==
    LET hits == {i \in 2..Len(s) : IsII(s[i - 1]) /\ s[i] \in {"METHODOLOGY", "Methodology"}}
    IN  IF hits = {} THEN 0 ELSE CHOOSE i \in hits : \A j \in hits : i <= j

\* extract_methodology_start_date (lines 71-100): the labelled complaint
\* receipt date, else the earliest slash date of the II. METHODOLOGY section
\* rendered as mm/dd/yyyy.
extract_methodology_start_date(s) ==
    LET l    == FirstIdx(s, 1, LAMBDA w : w = "Complaint Receipt Date: 03/04/2020")
        h    == HeadingIIMethodologyAt(s)
        sect == MethodologySection(s, h)
        ds   == {k \in 1..Len(sect) : DateIn(sect[k]).slash}
    IN  IF l # 0 THEN DateIn(s[l]).raw
        ELSE IF h = 0 \/ ds = {} THEN ""
        ELSE DateIn(sect[CHOOSE k \in ds :
                            \A j \in ds : DateIn(sect[k]).day <= DateIn(sect[j]).day]).fmt

\* parse_special_reports.py: the characters allowed between a date and
\* "initiat".
InitiatWindow == 100

\* Offset in the word at which "initiat" (any case) begins; -1 when absent.
InitiatAt(w) == IF w = "03/05/2020 Investigation initiated" THEN 25 ELSE 0 - 1

\* "initiat" begins in word j at most InitiatWindow characters after the
\* date of word i has ended.
InitiatFollows(sect, i, j) ==
    /\ InitiatAt(sect[j]) >= 0
    /\ Off(sect, j) + InitiatAt(sect[j]) >= Off(sect, i) + DateIn(sect[i]).end
    /\ Off(sect, j) + InitiatAt(sect[j]) - (Off(sect, i) + DateIn(sect[i]).end) <= InitiatWindow

\* extract_date_before_initiat (lines 103-118): in the section after the
\* first "methodology", the first slash date that "initiat" follows closely,
\* as written.
extract_date_before_initiat(s) ==
    LET h    == FirstIdx(s, 1, IsMethodology)
        sect == MethodologySection(s, h)
        hits == {i \in 1..Len(sect) :
                    /\ DateIn(sect[i]).slash
                    /\ \E j \in i..Len(sect) : InitiatFollows(sect, i, j)}
    IN  IF h = 0 \/ hits = {} THEN ""
        ELSE DateIn(sect[CHOOSE i \in hits : \A j \in hits : i <= j]).raw

\* What the three patterns of extract_admin_and_designee capture in a word:
\* the ordinal of the pattern, and its two groups in the order captured.
AdminCaptures(w) ==
    CASE w = "Administrator: Ann Lee Licensee Designee: Bob Ray" ->
            {[p |-> 1, g1 |-> "Ann Lee", g2 |-> "Bob Ray"]}
      [] w = "Licensee Designee: Bob Ray Chief Administrator: Ann Lee" ->
            {[p |-> 2, g1 |-> "Bob Ray", g2 |-> "Ann Lee"],
             [p |-> 3, g1 |-> "Bob Ray Chief", g2 |-> "Ann Lee"]}
      [] w = "Licensee Designee: Bob Ray Administrator: Ann Lee" ->
            {[p |-> 3, g1 |-> "Bob Ray", g2 |-> "Ann Lee"]}
      [] OTHER -> {}

\* The label that opens the p-th pattern, and the label that closes its
\* first group.
Opener(p) == IF p = 1 THEN "Administrator:" ELSE "Licensee Designee:"

Closer(p) ==
    IF p = 1 THEN "Licensee Designee:"
    ELSE IF p = 2 THEN "Chief Administrator:" ELSE "Administrator:"

\* The label occurs in the word ("Administrator:" also inside
\* "Chief Administrator:").
HasLabel(w, l) ==
    CASE w \in {"Administrator: Ann Lee Licensee Designee: Bob Ray",
                "Licensee Designee: Bob Ray Administrator: Ann Lee"} ->
            l \in {"Administrator:", "Licensee Designee:"}
      [] w = "Licensee Designee: Bob Ray Chief Administrator: Ann Lee" -> TRUE
      [] OTHER -> FALSE

\* What the word holds after the label, to the end of its line.
AfterLabel(w, l) ==
    CASE w = "Administrator: Ann Lee Licensee Designee: Bob Ray" ->
            IF l = "Administrator:" THEN "Ann Lee Licensee Designee: Bob Ray"
            ELSE "Bob Ray"
      [] w = "Licensee Designee: Bob Ray Chief Administrator: Ann Lee" ->
            IF l = "Licensee Designee:" THEN "Bob Ray Chief Administrator: Ann Lee"
            ELSE "Ann Lee"
      [] w = "Licensee Designee: Bob Ray Administrator: Ann Lee" ->
            IF l = "Licensee Designee:" THEN "Bob Ray Administrator: Ann Lee"
            ELSE "Ann Lee"
      [] OTHER -> ""

\* What the word holds before the label, without the white space around it.
BeforeLabel(w, l) ==
    CASE w = "Administrator: Ann Lee Licensee Designee: Bob Ray" ->
            IF l = "Licensee Designee:" THEN "Administrator: Ann Lee" ELSE ""
      [] w = "Licensee Designee: Bob Ray Chief Administrator: Ann Lee" ->
            IF l = "Administrator:" THEN "Licensee Designee: Bob Ray Chief"
            ELSE IF l = "Chief Administrator:" THEN "Licensee Designee: Bob Ray"
            ELSE ""
      [] w = "Licensee Designee: Bob Ray Administrator: Ann Lee" ->
            IF l = "Administrator:" THEN "Licensee Designee: Bob Ray" ELSE ""
      [] OTHER -> ""

\* The lines joined by line breaks, as they stand in the text.
RECURSIVE JoinLines(_)
JoinLines(ws) ==
    IF ws = << >> THEN ""
    ELSE IF Len(ws) = 1 THEN ws[1]
    ELSE ws[1] \o "\n" \o JoinLines(Tail(ws))

\* re.search of the p-th pattern (re.IGNORECASE | re.DOTALL): the leftmost
\* opening label with the closing label anywhere after it, the first group
\* up to the nearest closing label, whatever lines lie between, the second
\* group to the end of that line.
AdminMatch(s, p) ==
    LET within(w) == \E c \in AdminCaptures(w) : c.p = p
        opens == {k \in 1..Len(s) :
                    /\ HasLabel(s[k], Opener(p))
                    /\ \/ within(s[k])
                       \/ \E j \in (k + 1)..Len(s) : HasLabel(s[j], Closer(p))}
    IN  IF opens = {} THEN [found |-> FALSE, g1 |-> "", g2 |-> ""]
        ELSE LET k == CHOOSE k \in opens : \A n \in opens : k <= n
             IN  IF within(s[k])
                 THEN LET c == CHOOSE c \in AdminCaptures(s[k]) : c.p = p
                      IN  [found |-> TRUE, g1 |-> c.g1, g2 |-> c.g2]
                 ELSE LET closes == {j \in (k + 1)..Len(s) : HasLabel(s[j], Closer(p))}
                          j == CHOOSE j \in closes : \A n \in closes : j <= n
                          head == BeforeLabel(s[j], Closer(p))
                      IN  [found |-> TRUE,
                           g1 |-> JoinLines(<<AfterLabel(s[k], Opener(p))>>
                                        \o Sub(s, k + 1, j - 1)
                                        \o (IF head = "" THEN << >> ELSE <<head>>)),
                           g2 |-> AfterLabel(s[j], Closer(p))]

\* extract_admin_and_designee (lines 29-48): <<designee, admin>>.
extract_admin_and_designee(s) ==
    IF AdminMatch(s, 1).found THEN <<AdminMatch(s, 1).g2, AdminMatch(s, 1).g1>>
    ELSE IF AdminMatch(s, 2).found THEN <<AdminMatch(s, 2).g1, AdminMatch(s, 2).g2>>
    ELSE IF AdminMatch(s, 3).found THEN <<AdminMatch(s, 3).g1, AdminMatch(s, 3).g2>>
    ELSE <<"", "">>

\* The literal RECOMMENDATION (capitals) occurs in the word.
HasRECOMMENDATION(w) ==
    w \in {"RECOMMENDATION", "IV.RECOMMENDATION", "RECOMMENDATION I recommend no change ____"}

\* What the word holds after its RECOMMENDATION.
AfterRECOMMENDATION(w) ==
    IF w = "RECOMMENDATION I recommend no change ____" THEN <<"I recommend no change">>
    ELSE << >>

\* r"_{2,}" or a month name occurs in the word after position 1: the word
\* ends a recommendation.
EndsRecommendation(w) ==
    w \in {"July 14, 2020", "RECOMMENDATION I recommend no change ____"}

\* What the word holds before the rule or month name that ends a
\* recommendation begun in an earlier word.
BeforeRecommendationEnd(w) ==
    IF w = "RECOMMENDATION I recommend no change ____"
    THEN <<"RECOMMENDATION I recommend no change">>
    ELSE << >>

\* The "Recommendation" field (line 388): the text between the first
\* RECOMMENDATION and the next rule of underscores or month name, line
\* breaks replaced by blanks; empty when nothing ends it.
Recommendation(s) ==
    LET i == FirstIdx(s, 1, HasRECOMMENDATION)
        j == FirstIdx(s, i + 1, EndsRecommendation)
    IN  IF i = 0 THEN << >>
        ELSE IF EndsRecommendation(s[i]) THEN AfterRECOMMENDATION(s[i])
        ELSE IF j = 0 THEN << >>
        ELSE Sub(s, i + 1, j - 1) \o BeforeRecommendationEnd(s[j])

\* record.get('filename', record['sha256']) (line 351).
FileName(rec) == IF "filename" \in DOMAIN rec THEN rec.filename ELSE rec.sha256

\* The number of patterns tried for "Investigation #" by parse_single_record
\* (lines 361-367).
NumberPatterns == 6

\* basic_info of parse_single_record (lines 357-389).
BasicInfo(rec, s) ==
    [ File_Name |-> FileName(rec),
      SHA256 |-> rec.sha256,
      License_No |-> extract(s, "License #", 1),
      Investigation_No |-> FirstOf(s, "Investigation #", 1, NumberPatterns),
      Final_Report_Date |-> extract_final_report_date(s),
      Administrator |-> extract_admin_and_designee(s)[2],
      Licensee_Designee |-> extract_admin_and_designee(s)[1],
      Facility_Name |-> FirstOf(s, "Facility Name", 1, 3),
      Capacity |-> extract(s, "Capacity", 1),
      Complaint_Receipt_Date |-> extract_methodology_start_date(s),
      Investigation_Initiation_Date |-> extract_date_before_initiat(s),
      Effective_Date |-> extract(s, "Effective Date", 1),
      Expiration_Date |-> extract(s, "Expiration Date", 1),
      Facility_Address |-> FirstOf(s, "Facility Address", 1, 2),
      Facility_Telephone_No |-> extract(s, "Facility Telephone #", 1),
      License_Status |-> Lower(extract(s, "License Status", 1)),
      Licensee_Address |-> FirstOf(s, "Licensee Address", 1, 2),
      Licensee_Name |-> FirstOf(s, "Licensee Name", 1, 3),
      Licensee_Telephone_No |-> FirstOf(s, "Licensee Telephone #", 1, 2),
      Original_Issuance_Date |-> extract(s, "Original Issuance Date", 1),
      Program_Type |-> extract(s, "Program Type", 1),
      Recommendation |-> Recommendation(s) ]

(***************************************************************************)
(* parse_single_record (parse_special_reports.py)                          *)
(***************************************************************************)
\* "No" if "not" in concl.lower() else "Yes"
RecordStatus(concl) == IF HasNot(concl) THEN "No" ELSE "Yes"

\* A plausible slip: the records are numbered from 0.
AllegationsDataFromZero(allegs, invs, anas, concls) ==
    [i \in 1..Min(Min(Len(allegs), Len(invs)), Min(Len(anas), Len(concls))) |->
        [number |-> i - 1, allegation |-> allegs[i], investigation |-> invs[i],
         analysis |-> anas[i], conclusion |-> concls[i],
         violation_established |-> RecordStatus(concls[i])]]

\* Lines 391-400: one record per zipped quad, numbered from 1.
AllegationsData(allegs, invs, anas, concls) ==
    [i \in 1..Min(Min(Len(allegs), Len(invs)), Min(Len(anas), Len(concls))) |->
        [number |-> i, allegation |-> allegs[i], investigation |-> invs[i],
         analysis |-> anas[i], conclusion |-> concls[i],
         violation_established |-> RecordStatus(concls[i])]]

\* A plausible slip: zip over the three lists, so that a citation without a
\* conclusion of its ordinal gets no row.
RulesDataZipped(codes, descs, concls) ==
    [i \in 1..Min(Min(Len(codes), Len(descs)), Len(concls)) |->
        [number |-> i, rule_code |-> codes[i], description |-> descs[i],
         conclusion |-> concls[i],
         violation_established |-> IF HasNot(concls[i]) THEN "No" ELSE "Yes"]]

\* Lines 405-415: one row per zipped (code, description), with the
\* conclusion of the same ordinal when there is one.
RulesData(codes, descs, concls) ==
    [i \in 1..Min(Len(codes), Len(descs)) |->
        LET concl == IF i <= Len(concls) THEN concls[i] ELSE NA
        IN  [number |-> i, rule_code |-> codes[i], description |-> descs[i],
             conclusion |-> concl,
             violation_established |->
                 IF HasNot(concl) THEN "No" ELSE IF concl # NA THEN "Yes" ELSE "N/A"]]

\* A plausible slip: only a surplus of allegations counts as a mismatch.
MismatchMoreAllegations(adata, rdata) == Len(adata) > Len(rdata)

\* Line 422.
Mismatch(adata, rdata) == Len(adata) # Len(rdata)

(***************************************************************************)
(* parse_single_record and process_jsonl as functions of their input       *)
(* (parse_special_reports.py)                                              *)
(***************************************************************************)
\* "\n".join(record['text'])
JoinPages(pages) == Flatten(pages)

\* Lines 122-132: the text from "methodology" to the stop, which the loop of
\* the chain extractor starts from; nothing without "methodology".
ChainSpan(s) ==
    LET m    == FirstIdx(s, 1, IsMethodology)
        rest == Sub(s, m + 1, Len(s))
        stop == FirstIdx(rest, 1, IsIVStop)
    IN  IF m = 0 THEN << >>
        ELSE IF stop = 0 THEN rest
        ELSE Sub(rest, 1, stop - 1)

\* The quad a turn of the loop appends (lines 186-189).
Quad(t) ==
    [allegation |-> Clean(t.allegation), investigation |-> Clean(t.investigation),
     analysis |-> Clean(t.analysis), conclusion |-> Clean(t.conclusion)]

\* The loop of lines 141-191 run to its end: the quads appended.
RECURSIVE ChainLoop(_, _)
ChainLoop(rem, quads) ==
    IF ChainTurn(rem).kind # "quad" THEN quads
    ELSE ChainLoop(ChainTurn(rem).remaining, Append(quads, Quad(ChainTurn(rem))))

\* extract_allegation_investigation_analysis_conclusion(text), as quads.
extract_chain(s) == ChainLoop(ChainSpan(s), << >>)

\* One of the four lists the chain extractor returns.
QuadField(quads, f) == [i \in 1..Len(quads) |-> quads[i][f]]

\* Lines 391-423, given the text, the quads and the result of get_rule_codes.
ParseResult(rec, s, quads, rules) ==
    LET adata == AllegationsData(QuadField(quads, "allegation"),
                                 QuadField(quads, "investigation"),
                                 QuadField(quads, "analysis"),
                                 QuadField(quads, "conclusion"))
        rdata == RulesData(rules[1], rules[2], QuadField(quads, "conclusion"))
    IN  [basic_info |-> BasicInfo(rec, s), text |-> s, allegations |-> adata,
         rules |-> rdata, mismatch |-> Mismatch(adata, rdata)]

\* parse_single_record(record) (lines 337-423).
parse_single_record(rec) ==
    ParseResult(rec, JoinPages(rec.text), extract_chain(JoinPages(rec.text)),
                get_rule_codes(JoinPages(rec.text)))

\* A line of the JSONL file: text that json.loads rejects, or an object,
\* which may lack the keys the loop reads.
BadLine == [valid |-> FALSE, obj |-> [raw |-> "{'sha256': "]]

GoodLine(obj) == [valid |-> TRUE, obj |-> obj]

\* The handling of the line raises (lines 452-458): json.loads fails, or
\* record['sha256'] or record['text'] is missing (the default of
\* record.get is evaluated even when 'filename' is there).
Raises(line) ==
    \/ ~line.valid
    \/ "sha256" \notin DOMAIN line.obj
    \/ "text" \notin DOMAIN line.obj

\* row["Investigation #"] of process_jsonl (lines 465-471): the six patterns
\* of parse_single_record, then the broad one.
RowNumber(s) ==
    IF FirstOf(s, "Investigation #", 1, NumberPatterns) # ""
    THEN FirstOf(s, "Investigation #", 1, NumberPatterns)
    ELSE BroadInvestigationNumber(s)

\* The row of output.csv (lines 462-490, 509-514): the fields of basic_info
\* without the digest, the number by RowNumber, the initiation date falling
\* back to the complaint receipt date, and the number of allegations.
InfoRow(rec, s, quads) ==
    LET b == BasicInfo(rec, s)
    IN  [f \in (DOMAIN b \ {"SHA256"}) \cup {"Number_of_Allegations"} |->
            IF f = "Number_of_Allegations" THEN Len(quads)
            ELSE IF f = "Investigation_No" THEN RowNumber(s)
            ELSE IF f = "Investigation_Initiation_Date" /\ b[f] = ""
                 THEN b.Complaint_Receipt_Date
            ELSE b[f]]

\* The rows of violations.csv of one record (lines 517-526).
ViolationRows(rec, quads) ==
    [i \in 1..Len(quads) |->
        [File_Name |-> FileName(rec), Allegation |-> quads[i].allegation,
         Investigation |-> quads[i].investigation, Analysis |-> quads[i].analysis,
         Conclusion |-> quads[i].conclusion,
         Violation_Established |-> RecordStatus(quads[i].conclusion)]]

\* The rows of rules.csv of one record (lines 529-538): zip stops at the
\* shortest of codes, descriptions and conclusions.
RuleRows(rec, rules, quads) ==
    [i \in 1..Min(Len(rules[1]), Len(quads)) |->
        [File_Name |-> FileName(rec), Rule |-> rules[1][i],
         Description |-> rules[2][i], Conclusion |-> quads[i].conclusion,
         Violation_Established |-> RecordStatus(quads[i].conclusion)]]

\* The state of process_jsonl before the first line (lines 429-445).
BatchStart ==
    [info_rows |-> << >>, violation_rows |-> << >>, rule_rows |-> << >>,
     collected_investigations |-> {}, processed_count |-> 0, skipped_count |-> 0,
     duplicate_count |-> 0, error_count |-> 0]

\* A plausible slip: the handler goes on without counting.
OnErrorUncounted(b) == b

\* The handler of lines 551-554.
OnError(b) == [b EXCEPT !.error_count = @ + 1]

\* Lines 506-540: a report with a number not seen before.
OnNewReport(b, rec, s, number, quads, rules) ==
    [b EXCEPT !.collected_investigations = @ \cup {number},
              !.info_rows = Append(@, InfoRow(rec, s, quads)),
              !.violation_rows = @ \o ViolationRows(rec, quads),
              !.rule_rows = @ \o RuleRows(rec, rules, quads),
              !.processed_count = @ + 1]

\* A plausible slip: a duplicate is also counted as skipped.
OnRecordDuplicateSkipped(b, rec, s, number) ==
    IF number = "" THEN [b EXCEPT !.skipped_count = @ + 1]
    ELSE IF number \in b.collected_investigations
    THEN [b EXCEPT !.duplicate_count = @ + 1, !.skipped_count = @ + 1]
    ELSE OnNewReport(b, rec, s, number, extract_chain(s), get_rule_codes(s))

\* A plausible slip: the number is looked up among the numbers of the rows
\* written for reports with allegations only.
OnRecordNoLookup(b, rec, s, number) ==
    IF number = "" THEN [b EXCEPT !.skipped_count = @ + 1]
    ELSE IF number \in {b.info_rows[i].Investigation_No :
                            i \in {k \in 1..Len(b.info_rows) :
                                      b.info_rows[k].Number_of_Allegations > 0}}
    THEN [b EXCEPT !.duplicate_count = @ + 1]
    ELSE OnNewReport(b, rec, s, number, extract_chain(s), get_rule_codes(s))

\* Lines 492-540: a record whose fields were read without error.
OnRecord(b, rec, s, number) ==
    IF number = "" THEN [b EXCEPT !.skipped_count = @ + 1]
    ELSE IF number \in b.collected_investigations THEN [b EXCEPT !.duplicate_count = @ + 1]
    ELSE OnNewReport(b, rec, s, number, extract_chain(s), get_rule_codes(s))

\* One turn of the loop over the lines (lines 450-554).
ProcessStep(b, line) ==
    IF Raises(line) THEN OnError(b)
    ELSE OnRecord(b, line.obj, JoinPages(line.obj.text), RowNumber(JoinPages(line.obj.text)))

\* The loop over a whole file, from state b.
RECURSIVE ProcessAll(_, _)
ProcessAll(b, file) ==
    IF file = << >> THEN b ELSE ProcessAll(ProcessStep(b, Head(file)), Tail(file))

(***************************************************************************)
(* check_duplicate_consistency.py                                          *)
(***************************************************************************)
\* check_duplicate_consistency.py: characters of a conclusion that are kept.
ConclusionCut == 100

\* 'SPECIAL INVESTIGATION REPORT' in text (case-sensitive).
IsSIR(s) == \E k \in 1..Len(s) : s[k] = "SPECIAL INVESTIGATION REPORT"

\* record['sha256'][:16] : the first of the four 16-character blocks.
ShaHead(sha256) == Sub(sha256, 1, 1)

\* One block of extract_all_rules_with_status: its tuple, if it has a code.
RuleWithStatus(sect) ==
    LET conclusion == IF BlockConclusion(sect) = NA THEN NA
                      ELSE CharSlice(BlockConclusion(sect), 0, ConclusionCut)
    IN  IF CodeOf(sect) = "" THEN << >>
        ELSE << <<CodeOf(sect), conclusion, ViolationStatus(conclusion)>> >>

RECURSIVE RulesWithStatusFrom(_, _, _)
RulesWithStatusFrom(s, indices, k) ==
    IF k > Len(indices) THEN << >>
    ELSE RuleWithStatus(BlockText(s, indices, k))
            \o RulesWithStatusFrom(s, indices, k + 1)

\* The (rule_code, conclusion, violation_status) tuples of every block.
extract_all_rules_with_status(s) ==
    RulesWithStatusFrom(s, AllIdx(s, IsBlockStart), 1)

\* rule_statuses: the (conclusion, status) pairs per code, the codes in the
\* order of their first mention (a dict keeps insertion order).
RECURSIVE GroupByCode(_, _)
GroupByCode(all, groups) ==
    IF all = << >> THEN groups
    ELSE LET r == Head(all)
             hits == {k \in 1..Len(groups) : groups[k].rule = r[1]}
         IN  IF hits = {}
             THEN GroupByCode(Tail(all),
                     Append(groups, [rule |-> r[1], statuses |-> << <<r[2], r[3]>> >>]))
             ELSE LET k == CHOOSE k \in hits : TRUE
                  IN  GroupByCode(Tail(all),
                         [groups EXCEPT ![k].statuses = Append(@, <<r[2], r[3]>>)])

\* has_duplicates
HasDuplicates(groups) == \E k \in 1..Len(groups) : Len(groups[k].statuses) > 1

\* A plausible slip: only the first and the last mention are compared.
InconsistenciesFirstLast(groups) ==
    SelectSeq(groups, LAMBDA g :
        /\ Len(g.statuses) > 1
        /\ g.statuses[1][2] # g.statuses[Len(g.statuses)][2])

\* inconsistencies: the codes cited more than once whose statuses differ.
Inconsistencies(groups) ==
    SelectSeq(groups, LAMBDA g :
        /\ Len(g.statuses) > 1
        /\ Cardinality({g.statuses[i][2] : i \in 1..Len(g.statuses)}) > 1)

(***************************************************************************)
(* Inputs                                                                  *)
(***************************************************************************)
\* Longest heading text given to get_rule_codes, in words.
MaxHeadingWords == 4

HeadingWords ==
    {"II.", "III.", "METHODOLOGY", "Methodology", "INVESTIGATION", "ALLEGATION",
     "IV.", "R 400.1234"}

HeadingTexts == SeqsUpTo(HeadingWords, MaxHeadingWords)

\* Most pages of a document given to the rule extractors.
MaxRulePages == 3

RulePages ==
    { <<"APPLICABLE RULE", "R 400.1234", "CONCLUSION:", "Violation not established.">>,
      <<"APPLICABLE RULE", "R 400.1234", "staff", "CONCLUSION:", "Violation established.">>,
      <<"APPLICABLE RULE", "R 400.5678", "ANALYSIS", "staff", "CONCLUSION:",
        "staff", "staff", "Violation established.">>,
      <<"APPLICABLE RULE", "R 400.5678">>,
      <<"Applicable Policy", "FOM 722-03D", "CONCLUSION:">>,
      <<"APPLICABLE RULE", "staff", "CONCLUSION:", "Violation established.">>,
      <<"APPLICABLE RULE", "400.1234", "CONCLUSION:", "not", "applicable",
        "Violation established.">>,
      <<"Rule Code & CCI Rule 400.5678", "staff">>,
      <<"Rule Code & CCI Rule 400.1234">>,
      <<"Rule Code Placement", "R 400.1234">>,
      <<Passage>>,
      <<"FOM 722-03D", "staff">> }

RuleTexts == {JoinPages(ps) : ps \in SeqsUpTo(RulePages, MaxRulePages)}

\* Most records of the JSONL file given to check_consistency.
MaxDocs == 3

\* A SHA-256 digest in hexadecimal, as four blocks of 16 characters.
Sha(head) == <<head, "89abcdef01234567", "0123456789abcdef", "fedcba9876543210">>

BlockNo == <<"APPLICABLE RULE", "R 400.1234", "CONCLUSION:", "Violation not established.">>

BlockYes == <<"APPLICABLE RULE", "R 400.1234", "staff", "CONCLUSION:",
              "Violation established.">>

BlockYesShort == <<"APPLICABLE RULE", "R 400.1234", "CONCLUSION:", "Violation established.">>

BlockOtherYes == <<"APPLICABLE RULE", "R 400.5678", "CONCLUSION:", "Violation established.">>

BlockOtherLong == <<"APPLICABLE RULE", "R 400.5678", "ANALYSIS", "staff", "CONCLUSION:",
                    "staff", "staff", "Violation established.">>

BlockOtherBare == <<"APPLICABLE RULE", "R 400.5678">>

\* A citation of the tabular format followed by its conclusion.
TabularYes == <<"Rule Code & CCI Rule 400.5678", "CONCLUSION:", "Violation established.">>

TabularNo == <<"Rule Code & CCI Rule 400.5678", "CONCLUSION:",
               "Violation not established.">>

TitleSIR == <<"SPECIAL INVESTIGATION REPORT">>

TitleOther == <<"Special Investigation Report">>

\* The records of pdfs_as_text.jsonl: a digest and the pages of the text.
ConsistencyDocs ==
    { [sha256 |-> Sha("3fa91c0b7de24a55"), text |-> <<TitleSIR, BlockNo, BlockYes>>],
      [sha256 |-> Sha("3fa91c0b7de24a56"), text |-> <<TitleOther, BlockNo, BlockYes>>],
      [sha256 |-> Sha("a0000000000000a1"), text |-> <<TitleSIR, BlockYes, BlockYesShort>>],
      [sha256 |-> Sha("b0000000000000b2"),
       text |-> <<TitleSIR, BlockNo, BlockOtherLong, BlockOtherBare, BlockYes>>],
      [sha256 |-> Sha("c0000000000000c3"),
       text |-> <<TitleSIR, BlockOtherYes, BlockNo, BlockOtherLong, BlockYes>>],
      [sha256 |-> Sha("d0000000000000d4"), text |-> <<TitleSIR, <<"staff">> >>],
      [sha256 |-> Sha("e0000000000000e5"), text |-> <<TitleSIR, BlockYes>>],
      [sha256 |-> Sha("f0000000000000f6"), text |-> <<TitleOther, BlockNo>>],
      [sha256 |-> Sha("0123456789abcdef"),
       text |-> <<TitleSIR, BlockNo, BlockYes, BlockNo>>],
      [sha256 |-> Sha("7a000000000000b7"), text |-> <<TitleSIR, TabularYes, TabularNo>>] }

ConsistencyFiles == SeqsUpTo(ConsistencyDocs, MaxDocs)

\* Most pages after the heading page of a record given to parse_single_record.
MaxCycles == 2

\* The narrative words of the n-th page: allegation, investigation, analysis
\* and conclusion text.
Told(n) ==
    IF n = 1 THEN [a |-> "a1", b |-> "b1", c |-> "c1", d |-> "d1"]
    ELSE IF n = 2 THEN [a |-> "a2", b |-> "b2", c |-> "c2", d |-> "d2"]
    ELSE IF n = 3 THEN [a |-> "a3", b |-> "b3", c |-> "c3", d |-> "d3"]
    ELSE [a |-> "a4", b |-> "b4", c |-> "c4", d |-> "d4"]

\* A complete cycle with its markers in capitals.
UpperCycle(n) ==
    <<"ALLEGATION", Told(n).a, "INVESTIGATION", Told(n).b, "ANALYSIS", Told(n).c,
      "CONCLUSION", Told(n).d, "ESTABLISHED">>

\* A complete cycle with its markers in title case.
TitleCycle(n) ==
    <<"Allegation", Told(n).a, "Investigation", Told(n).b, "Analysis", Told(n).c,
      "Conclusion", Told(n).d, "established">>

\* The pages a record may hold as its n-th page.
CyclePages(n) ==
    { UpperCycle(n),
      TitleCycle(n),
      <<"ALLEGATION", ":", Told(n).a, "INVESTlGATION", ":", Told(n).b,
        "APPLICABLE RULE", "R 400.1234", "ANALYSIS", ":", Told(n).c,
        "CONCLUSION:", "VIOLATION", "NOT", "ESTABLlSHED">>,
      <<"ALLEGATION", Told(n).a, "INVESTIGATION", Told(n).b,
        "APPLICABLE RULE", "R 400.5678", "CONCLUSION:", "Violation established.">>,
      <<"Allegation", Told(n).a, "Investigation", Told(n).b, "Analysis", Told(n).c,
        "Conclusion:", Told(n).d, "Violation">>,
      <<"Allegation", Told(n).a, "investigation", Told(n).b, "Analysis", Told(n).c,
        "Conclusion:", "not", Told(n).d, "Violation">>,
      <<"Allegation", Told(n).a, "Investigation", Told(n).b, "Analysis", Told(n).c>>,
      <<"ALLEGATION", Told(n).a>>,
      <<"APPLICABLE RULE", "R 400.5678">>,
      <<"Rule Code & CCI Rule 400.1234", "staff">>,
      <<"IV.", "RECOMMENDATION">>,
      <<"IV.RECOMMENDATION">> }

\* A heading page with every labelled line, the log of the methodology
\* section and a recommendation.
FullHeading ==
    <<"SPECIAL INVESTIGATION REPORT", "License #: CB250201234",
      "Investigation #: 2019C0114036", "Name of Facility: Maple House",
      "Facility Address: 1 Main St / Lansing MI 48933",
      "Facility Telephone #: (517) 555-0100", "Capacity: 12",
      "License Status: REGULAR", "Effective Date: 01/01/2020",
      "Expiration Date: 12/31/2021", "Original Issuance Date: 6/1/15",
      "Program Type: CHILD CARING INSTITUTION", "Licensee Name: Oak Agency Inc",
      "Licensee Address: 2 Elm St / Detroit MI 48201-1234",
      "Licensee Telephone #: 517-555-0199",
      "Administrator: Ann Lee Licensee Designee: Bob Ray",
      "RECOMMENDATION I recommend no change ____",
      "II.", "METHODOLOGY", "03/04/2020 Complaint received",
      "03/05/2020 Investigation initiated", "3/2/20 Contact", "III.", "INVESTIGATION">>

\* A heading page with the other spellings of the labels, and with lines
\* last on which a pattern needs a line break.
OtherHeading ==
    <<"SIR #: 2020A0215001", "Agency Name: Oak Agency",
      "Agency Address: 3 Oak Ave / Flint MI 48502",
      "Licensee Group Organization: Oak Group",
      "Licensee Designee: Bob Ray Chief Administrator: Ann Lee",
      "Complaint Receipt Date: 03/04/2020", "RECOMMENDATION", "staff",
      "July 14, 2020", "Methodology", "3/2/20 Contact",
      "Program Type: CHILD CARING INSTITUTION">>

MethodologyHeading == <<"Methodology">>

\* The heading page of a record.
HeadingPages ==
    { << >>,
      MethodologyHeading,
      <<"II.", "METHODOLOGY">>,
      <<"SPECIAL INVESTIGATION REPORT", "II.", "METHODOLOGY", "III.", "INVESTIGATION">>,
      FullHeading,
      OtherHeading,
      <<"staff", "R 400.1234", Passage>> }

\* The page lists of exactly k pages after the heading page.
RECURSIVE PageLists(_)
PageLists(k) ==
    IF k = 0 THEN {<< >>}
    ELSE {Append(ps, p) : ps \in PageLists(k - 1), p \in CyclePages(k)}

\* The records given to parse_single_record.
\* Heading pages whose line of administrator and designee stands twice,
\* as on a cover page and on the page after it, and one with each label on
\* a line of its own.
AdminHeadings ==
    { <<"Licensee Designee: Bob Ray Administrator: Ann Lee", "Capacity: 12",
        "Licensee Designee: Bob Ray Administrator: Ann Lee">>,
      <<"Administrator: Ann Lee Licensee Designee: Bob Ray", "Capacity: 12",
        "Administrator: Ann Lee Licensee Designee: Bob Ray">>,
      <<"Licensee Designee: Bob Ray Administrator: Ann Lee", "Capacity: 12">> }

ParseRecords ==
    { [sha256 |-> Sha("3fa91c0b7de24a55"), text |-> <<h>> \o ps] :
        h \in HeadingPages, ps \in UNION {PageLists(k) : k \in 0..MaxCycles} }
    \cup { [sha256 |-> Sha("3fa91c0b7de24a55"), text |-> <<h>>] : h \in AdminHeadings }

\* Most lines of the file given to process_jsonl.
MaxLines == 3

\* A report with every header line and one allegation.
ReportA == [sha256 |-> Sha("a10000000000001a"), text |-> <<FullHeading, UpperCycle(1)>>]

\* Another document that carries the investigation number of ReportA.
ReportA2 ==
    [sha256 |-> Sha("a20000000000002a"),
     text |-> << <<"Investigation #: 2019C0114036", "Methodology">>, TitleCycle(1) >>]

\* A report under the other labels, without allegations, with a file name.
ReportB ==
    [sha256 |-> Sha("b10000000000001b"), filename |-> "report_b.pdf",
     text |-> <<OtherHeading>>]

\* A report without a labelled number, citing one rule in the tabular
\* format.
ReportTitled ==
    [sha256 |-> Sha("c10000000000001c"),
     text |-> << <<"SPECIAL INVESTIGATION REPORT", "II.", "METHODOLOGY", "III.",
                   "INVESTIGATION">>,
                 <<"Rule Code & CCI Rule 400.1234", "staff">> >>]

\* A document that is no report.
Letter ==
    [sha256 |-> Sha("d10000000000001d"), text |-> << <<"staff", "R 400.1234", Passage>> >>]

\* Objects that lack a key.
NoDigest == [text |-> <<FullHeading>>]

NoText == [sha256 |-> Sha("e10000000000001e")]

\* The lines a file may hold.
BatchLines ==
    { GoodLine(ReportA), GoodLine(ReportA2), GoodLine(ReportB), GoodLine(ReportTitled),
      GoodLine(Letter), GoodLine(NoDigest), GoodLine(NoText), BadLine }

BatchFiles == SeqsUpTo(BatchLines, MaxLines)

(***************************************************************************)
(* Operations                                                              *)
(***************************************************************************)
RuleCodesIdle ==
    /\ is_structure_B = FALSE
    /\ rule_codes = << >>
    /\ descriptions = << >>

AgnosticIdle ==
    /\ applicable_rules = << >>
    /\ rule_code_rules = << >>
    /\ all_rules = << >>
    /\ unique_rules = << >>
    /\ unique_descriptions = << >>
    /\ unique_conclusions = << >>
    /\ unique_violations = << >>
    /\ duplicates = << >>

ConsistencyIdle ==
    /\ lines = << >>
    /\ line_no = 1
    /\ inconsistent_docs = << >>
    /\ total_docs = 0
    /\ total_docs_with_dups = 0

ChainIdle ==
    /\ remaining_text = << >>
    /\ allegations = << >>
    /\ investigations = << >>
    /\ analyses = << >>
    /\ conclusions = << >>

BatchIdle ==
    /\ jsonl = << >>
    /\ line_num = 1
    /\ info_rows = << >>
    /\ violation_rows = << >>
    /\ rule_rows = << >>
    /\ collected_investigations = {}
    /\ processed_count = 0
    /\ skipped_count = 0
    /\ duplicate_count = 0
    /\ error_count = 0

NormalizeIdle ==
    /\ structure = << >>
    /\ normalized = << >>
    /\ structures = << >>

ExtractIdle ==
    /\ NormalizeIdle
    /\ pdf_dir = {}
    /\ output_jsonl = << >>
    /\ processed_ids = {}
    /\ pdf_files = << >>
    /\ idx = 1
    /\ runs = 0

ParseIdle ==
    /\ BatchIdle
    /\ ExtractIdle
    /\ parsed_log = << >>
    /\ basic_info = << >>
    /\ allegations_data = << >>
    /\ rules_data = << >>
    /\ mismatch = FALSE

NoRecord == [sha256 |-> << >>, text |-> << >>]

InitRuleCodes ==
    /\ text \in HeadingTexts
    /\ pc = "input"
    /\ RuleCodesIdle
    /\ AgnosticIdle
    /\ ConsistencyIdle
    /\ ChainIdle
    /\ ParseIdle
    /\ record = NoRecord

\* get_rule_codes(text)
GetRuleCodes ==
    /\ pc = "input"
    /\ is_structure_B' = IsStructureB(text)
    /\ rule_codes' = get_rule_codes(text)[1]
    /\ descriptions' = get_rule_codes(text)[2]
    /\ pc' = "rule_codes"
    /\ UNCHANGED <<text, agnosticVars, consistencyVars, chainVars, parseVars, reparseVars, batchVars,
                   extractVars, normalizeVars>>

NextRuleCodes == GetRuleCodes

SpecRuleCodes == InitRuleCodes /\ [][NextRuleCodes]_vars

InitAgnostic ==
    /\ text \in RuleTexts
    /\ pc = "input"
    /\ RuleCodesIdle
    /\ AgnosticIdle
    /\ ConsistencyIdle
    /\ ChainIdle
    /\ ParseIdle
    /\ record = NoRecord

\* extract_rules_agnostic(text)
ExtractRulesAgnostic ==
    /\ pc = "input"
    /\ applicable_rules' = extract_applicable_format_agnostic(text)
    /\ rule_code_rules' = extract_rule_code_format_agnostic(text)
    /\ all_rules' = AllRules(text)
    /\ duplicates' = Duplicates(all_rules')
    /\ LET u == Unique(all_rules', {})
       IN  /\ unique_rules' = [k \in 1..Len(u) |-> u[k].rule_code]
           /\ unique_descriptions' = [k \in 1..Len(u) |-> u[k].description]
           /\ unique_conclusions' = [k \in 1..Len(u) |-> u[k].conclusion]
           /\ unique_violations' = [k \in 1..Len(u) |-> u[k].violation]
    /\ pc' = "agnostic"
    /\ UNCHANGED <<text, ruleVars, consistencyVars, chainVars, parseVars, reparseVars, batchVars,
                   extractVars, normalizeVars>>

NextAgnostic == ExtractRulesAgnostic

SpecAgnostic == InitAgnostic /\ [][NextAgnostic]_vars

InitConsistency ==
    /\ lines \in ConsistencyFiles
    /\ line_no = 1
    /\ inconsistent_docs = << >>
    /\ total_docs = 0
    /\ total_docs_with_dups = 0
    /\ text = << >>
    /\ pc = "reading"
    /\ RuleCodesIdle
    /\ AgnosticIdle
    /\ ChainIdle
    /\ ParseIdle
    /\ record = NoRecord

\* check_consistency: one turn of the loop over the lines of the file.
CheckDocument ==
    /\ pc = "reading"
    /\ line_no <= Len(lines)
    /\ LET rec    == lines[line_no]
           t      == JoinPages(rec.text)
           groups == GroupByCode(extract_all_rules_with_status(t), << >>)
           inconsistencies == Inconsistencies(groups)
       IN  /\ text' = t
           /\ IF ~IsSIR(t)
              THEN UNCHANGED <<inconsistent_docs, total_docs, total_docs_with_dups>>
              ELSE /\ total_docs' = total_docs + 1
                   /\ total_docs_with_dups' =
                         IF HasDuplicates(groups) THEN total_docs_with_dups + 1
                         ELSE total_docs_with_dups
                   /\ inconsistent_docs' =
                         IF inconsistencies # << >>
                         THEN Append(inconsistent_docs,
                                     [sha256 |-> ShaHead(rec.sha256),
                                      inconsistencies |-> inconsistencies])
                         ELSE inconsistent_docs
    /\ line_no' = line_no + 1
    /\ UNCHANGED <<pc, lines, ruleVars, agnosticVars, chainVars, parseVars, reparseVars, batchVars,
                   extractVars, normalizeVars>>

\* check_consistency: the results printed after the loop; the percentages
\* divide by total_docs.
ReportConsistency ==
    /\ pc = "reading"
    /\ line_no > Len(lines)
    /\ pc' = IF total_docs = 0 THEN "ZeroDivisionError" ELSE "results"
    /\ UNCHANGED <<text, lines, line_no, inconsistent_docs, total_docs,
                   total_docs_with_dups, ruleVars, agnosticVars, chainVars,
                   parseVars, reparseVars, batchVars,
                   extractVars, normalizeVars>>

NextConsistency == CheckDocument \/ ReportConsistency

SpecConsistency == InitConsistency /\ [][NextConsistency]_vars

Init ==
    /\ record \in ParseRecords
    /\ text = << >>
    /\ pc = "start"
    /\ RuleCodesIdle
    /\ AgnosticIdle
    /\ ConsistencyIdle
    /\ ChainIdle
    /\ ParseIdle

\* parse_single_record up to the loop of the chain extractor: the pages are
\* joined (line 352), and the text from "Methodology" to the stop is cut out
\* (lines 123-139).
ChainStart ==
    /\ pc = "start"
    /\ text' = JoinPages(record.text)
    /\ LET m    == FirstIdx(text', 1, IsMethodology)
           rest == Sub(text', m + 1, Len(text'))
           stop == FirstIdx(rest, 1, IsIVStop)
       IN  IF m = 0
           THEN /\ pc' = "chain_returned"
                /\ remaining_text' = << >>
           ELSE /\ pc' = "chain_loop"
                /\ remaining_text' = IF stop = 0 THEN rest ELSE Sub(rest, 1, stop - 1)
    /\ allegations' = NewList(allegations)
    /\ investigations' = NewList(investigations)
    /\ analyses' = NewList(analyses)
    /\ conclusions' = NewList(conclusions)
    /\ basic_info' = BasicInfo(record, text')
    /\ UNCHANGED <<record, allegations_data, rules_data, mismatch, ruleVars,
                   agnosticVars, consistencyVars, reparseVars, batchVars,
                   extractVars, normalizeVars>>

\* One turn of the while loop (lines 141-191).
ChainIteration ==
    /\ pc = "chain_loop"
    /\ \E t \in {ChainTurn(remaining_text)} :
           /\ pc' = AfterTurn(t.kind)
           /\ remaining_text' = t.remaining
           /\ IF t.kind = "quad"
              THEN /\ allegations' = Append(allegations, Clean(t.allegation))
                   /\ investigations' = Append(investigations, Clean(t.investigation))
                   /\ analyses' = Append(analyses, Clean(t.analysis))
                   /\ conclusions' = Append(conclusions, Clean(t.conclusion))
              ELSE UNCHANGED <<allegations, investigations, analyses, conclusions>>
    /\ UNCHANGED <<text, parseVars, ruleVars, agnosticVars, consistencyVars, reparseVars, batchVars,
                   extractVars, normalizeVars>>

\* parse_single_record after the chain extractor has returned (lines 391-423).
ParseFinish ==
    /\ pc = "chain_returned"
    /\ allegations_data' = AllegationsData(allegations, investigations, analyses, conclusions)
    /\ is_structure_B' = IsStructureB(text)
    /\ rule_codes' = get_rule_codes(text)[1]
    /\ descriptions' = get_rule_codes(text)[2]
    /\ rules_data' = RulesData(rule_codes', descriptions', conclusions)
    /\ mismatch' = Mismatch(allegations_data', rules_data')
    /\ pc' = "parsed"
    /\ UNCHANGED <<text, record, basic_info, chainVars, agnosticVars, consistencyVars, reparseVars, batchVars,
                   extractVars, normalizeVars>>

Next == ChainStart \/ ChainIteration \/ ParseFinish

Spec == Init /\ [][Next]_vars

\* The texts given to the chain extractor on its own: one without
\* "methodology", and the page lists after two of the heading pages.
\* A complete cycle whose INVESTIGATION marker was read with two letters
\* wrong ("l" for "I" twice).
TwoErrorText ==
    MethodologyHeading \o
    <<"ALLEGATION", "a1", "lNVESTlGATION", "b1", "ANALYSIS", "c1",
      "CONCLUSION", "d1", "ESTABLISHED">>

ChainTexts ==
    { <<"staff", "R 400.1234", Passage>>, TwoErrorText } \cup
    { JoinPages(<<h>> \o ps) :
        h \in {MethodologyHeading, FullHeading},
        ps \in UNION {PageLists(k) : k \in 0..MaxCycles} }

InitChain ==
    /\ text \in ChainTexts
    /\ record = NoRecord
    /\ pc = "chain_start"
    /\ RuleCodesIdle
    /\ AgnosticIdle
    /\ ConsistencyIdle
    /\ ChainIdle
    /\ ParseIdle

\* The chain extractor up to its loop (lines 121-139).
ChainEnter ==
    /\ pc = "chain_start"
    /\ remaining_text' = ChainSpan(text)
    /\ pc' = IF FirstIdx(text, 1, IsMethodology) = 0 THEN "chain_returned" ELSE "chain_loop"
    /\ allegations' = NewList(allegations)
    /\ investigations' = NewList(investigations)
    /\ analyses' = NewList(analyses)
    /\ conclusions' = NewList(conclusions)
    /\ UNCHANGED <<text, parseVars, ruleVars, agnosticVars, consistencyVars, reparseVars,
                   batchVars, extractVars, normalizeVars>>

\* The return of the four lists (line 193).
ChainReturn ==
    /\ pc = "chain_returned"
    /\ pc' = "chain_done"
    /\ UNCHANGED <<text, chainVars, parseVars, ruleVars, agnosticVars, consistencyVars,
                   reparseVars, batchVars, extractVars, normalizeVars>>

NextChain == ChainEnter \/ ChainIteration \/ ChainReturn

\* The chain extractor as a call that is not suspended: a step that can be
\* taken is taken.
SpecChain == InitChain /\ [][NextChain]_vars /\ WF_vars(NextChain)

\* Most calls of parse_single_record made one after the other.
MaxCalls == 3

\* The records parsed again and again.
ReparseRecords ==
    { r \in ParseRecords :
        r.text \in { << << >> >>,
                     <<OtherHeading>>,
                     <<FullHeading, UpperCycle(1)>>,
                     <<MethodologyHeading, TitleCycle(1)>>,
                     <<MethodologyHeading, <<"ALLEGATION", Told(1).a>> >>,
                     <<MethodologyHeading, UpperCycle(1)>>,
                     << <<"II.", "METHODOLOGY">>,
                        <<"ALLEGATION", Told(1).a, "INVESTIGATION", Told(1).b,
                          "APPLICABLE RULE", "R 400.5678", "CONCLUSION:",
                          "Violation established.">> >>,
                     << <<"SPECIAL INVESTIGATION REPORT", "II.", "METHODOLOGY", "III.",
                          "INVESTIGATION">>,
                        <<"Rule Code & CCI Rule 400.1234", "staff">> >> } }

\* What parse_single_record returns (lines 417-423).
Result ==
    [basic_info |-> basic_info, text |-> text, allegations |-> allegations_data,
     rules |-> rules_data, mismatch |-> mismatch]

InitReparse ==
    /\ record \in ReparseRecords
    /\ text = << >>
    /\ pc = "start"
    /\ RuleCodesIdle
    /\ AgnosticIdle
    /\ ConsistencyIdle
    /\ ChainIdle
    /\ ParseIdle

\* The call has returned and, unless it was the last, parse_single_record is
\* called again, on any record; whatever the call left in memory is still
\* there.
ParseAgain ==
    /\ pc = "parsed"
    /\ Len(parsed_log) < MaxCalls
    /\ parsed_log' = Append(parsed_log, [record |-> record, result |-> Result])
    /\ IF Len(parsed_log') < MaxCalls
       THEN record' \in ReparseRecords /\ pc' = "start"
       ELSE record' = record /\ pc' = "done"
    /\ UNCHANGED <<text, allegations_data, rules_data, mismatch, basic_info, ruleVars,
                   agnosticVars, consistencyVars, chainVars, batchVars,
                   extractVars, normalizeVars>>

NextReparse == ChainStart \/ ChainIteration \/ ParseFinish \/ ParseAgain

SpecReparse == InitReparse /\ [][NextReparse]_vars

\* The state of process_jsonl, as one record.
Batch ==
    [info_rows |-> info_rows, violation_rows |-> violation_rows,
     rule_rows |-> rule_rows, collected_investigations |-> collected_investigations,
     processed_count |-> processed_count, skipped_count |-> skipped_count,
     duplicate_count |-> duplicate_count, error_count |-> error_count]

InitBatch ==
    /\ jsonl \in BatchFiles
    /\ line_num = 1
    /\ info_rows = << >>
    /\ violation_rows = << >>
    /\ rule_rows = << >>
    /\ collected_investigations = {}
    /\ processed_count = 0
    /\ skipped_count = 0
    /\ duplicate_count = 0
    /\ error_count = 0
    /\ ExtractIdle
    /\ parsed_log = << >>
    /\ basic_info = << >>
    /\ allegations_data = << >>
    /\ rules_data = << >>
    /\ mismatch = FALSE
    /\ record = NoRecord
    /\ text = << >>
    /\ pc = "batch"
    /\ RuleCodesIdle
    /\ AgnosticIdle
    /\ ConsistencyIdle
    /\ ChainIdle

\* process_jsonl: one turn of the loop over the lines (lines 450-554).
ProcessLine ==
    /\ pc = "batch"
    /\ line_num <= Len(jsonl)
    /\ \E b \in {ProcessStep(Batch, jsonl[line_num])} :
          /\ info_rows' = b.info_rows
          /\ violation_rows' = b.violation_rows
          /\ rule_rows' = b.rule_rows
          /\ collected_investigations' = b.collected_investigations
          /\ processed_count' = b.processed_count
          /\ skipped_count' = b.skipped_count
          /\ duplicate_count' = b.duplicate_count
          /\ error_count' = b.error_count
    /\ line_num' = line_num + 1
    /\ UNCHANGED <<text, pc, jsonl, ruleVars, agnosticVars, consistencyVars, chainVars,
                   parseVars, reparseVars,
                   extractVars, normalizeVars>>

\* process_jsonl: the summary and the CSV files, after the last line (lines
\* 556-594).
WriteOutputs ==
    /\ pc = "batch"
    /\ line_num > Len(jsonl)
    /\ pc' = "written"
    /\ UNCHANGED <<text, ruleVars, agnosticVars, consistencyVars, chainVars, parseVars,
                   reparseVars, batchVars,
                   extractVars, normalizeVars>>

NextBatch == ProcessLine \/ WriteOutputs

SpecBatch == InitBatch /\ [][NextBatch]_vars

(***************************************************************************)
(* extract_pdf_text.py: process_directory                                  *)
(***************************************************************************)
\* Most runs of process_directory on the same output file.
MaxRuns == 2

\* The files a directory may hold, in the order sorted() gives their paths
\* (capitals before small letters).  A file has the digest of its bytes
\* and the pages pdfplumber extracts from it; pdfplumber raises on a file
\* that is not readable.  a_copy.pdf has the bytes of a.pdf.
AllFiles ==
    << [name |-> "B.PDF", suffix |-> "PDF", sha256 |-> Sha("b20000000000002b"),
        readable |-> TRUE, pages |-> <<"page one of b", "">>],
       [name |-> "a.pdf", suffix |-> "pdf", sha256 |-> Sha("a10000000000001a"),
        readable |-> TRUE, pages |-> <<"page one of a">>],
       [name |-> "a_copy.pdf", suffix |-> "pdf", sha256 |-> Sha("a10000000000001a"),
        readable |-> TRUE, pages |-> <<"page one of a">>],
       [name |-> "broken.pdf", suffix |-> "pdf", sha256 |-> Sha("c30000000000003c"),
        readable |-> FALSE, pages |-> << >>],
       [name |-> "notes.txt", suffix |-> "txt", sha256 |-> Sha("d40000000000004d"),
        readable |-> FALSE, pages |-> << >>] >>

File(n) == CHOOSE f \in Range(AllFiles) : f.name = n

\* The directories a run may find.
Directories ==
    { {},
      {File("a.pdf")},
      {File("a.pdf"), File("B.PDF")},
      {File("a.pdf"), File("a_copy.pdf")},
      {File("B.PDF"), File("broken.pdf"), File("notes.txt")},
      Range(AllFiles) }

\* The record process_directory writes for a file (lines 139-143); the
\* time of processing is the number of the run.
PdfRecord(f, now) == [sha256 |-> f.sha256, text |-> f.pages, dateprocessed |-> now]

\* A blank line of the output file.
BlankLine == [valid |-> FALSE, obj |-> [raw |-> ""]]

\* The output files a first run may find: none or an empty one, one with
\* the record of a.pdf, and files with a line that load_processed_ids
\* passes over.
ExistingOutputs ==
    { << >>,
      <<GoodLine(PdfRecord(File("a.pdf"), 0))>>,
      <<BadLine, GoodLine(PdfRecord(File("B.PDF"), 0))>>,
      <<GoodLine(PdfRecord(File("a.pdf"), 0)), BlankLine, GoodLine(NoDigest)>> }

\* load_processed_ids (lines 36-48): the digests of the lines that are
\* JSON objects with a key "sha256".
load_processed_ids(file) ==
    { file[k].obj.sha256 :
        k \in { i \in 1..Len(file) : file[i].valid /\ "sha256" \in DOMAIN file[i].obj } }

\* Line 105 and sorted() of line 123: the files that glob("*.pdf") and
\* glob("*.PDF") list, in the order of their paths.
IsListed(f) == f.suffix \in {"pdf", "PDF"}

SortedPdfFiles(dir) ==
    LET Listed(f) == f \in dir /\ IsListed(f)
    IN  SelectSeq(AllFiles, Listed)

\* calculate_sha256 (lines 27-33).
calculate_sha256(f) == f.sha256

InitExtract ==
    /\ output_jsonl \in ExistingOutputs
    /\ pdf_dir = {}
    /\ processed_ids = {}
    /\ pdf_files = << >>
    /\ idx = 1
    /\ runs = 0
    /\ pc = "extract_idle"
    /\ NormalizeIdle
    /\ text = << >>
    /\ record = NoRecord
    /\ RuleCodesIdle
    /\ AgnosticIdle
    /\ ConsistencyIdle
    /\ ChainIdle
    /\ BatchIdle
    /\ parsed_log = << >>
    /\ basic_info = << >>
    /\ allegations_data = << >>
    /\ rules_data = << >>
    /\ mismatch = FALSE

\* process_directory up to the loop (lines 88-121), on the directory as the
\* run finds it.
StartRun ==
    /\ pc = "extract_idle"
    /\ runs < MaxRuns
    /\ pdf_dir' \in Directories
    /\ processed_ids' = load_processed_ids(output_jsonl)
    /\ pdf_files' = SortedPdfFiles(pdf_dir')
    /\ idx' = 1
    /\ processed_count' = 0
    /\ skipped_count' = 0
    /\ error_count' = 0
    /\ pc' = "extracting"
    /\ UNCHANGED <<text, output_jsonl, runs, ruleVars, agnosticVars, consistencyVars,
                   chainVars, parseVars, reparseVars, normalizeVars, jsonl, line_num, info_rows,
                   violation_rows, rule_rows, collected_investigations,
                   duplicate_count>>

\* One turn of the loop over the files (lines 123-166).
ExtractPdf ==
    /\ pc = "extracting"
    /\ idx <= Len(pdf_files)
    /\ IF calculate_sha256(pdf_files[idx]) \in processed_ids
       THEN /\ skipped_count' = skipped_count + 1
            /\ UNCHANGED <<output_jsonl, processed_count, error_count>>
       ELSE IF ~pdf_files[idx].readable
       THEN /\ error_count' = error_count + 1
            /\ UNCHANGED <<output_jsonl, processed_count, skipped_count>>
       ELSE /\ output_jsonl' =
                  Append(output_jsonl, GoodLine(PdfRecord(pdf_files[idx], runs + 1)))
            /\ processed_count' = processed_count + 1
            /\ UNCHANGED <<skipped_count, error_count>>
    /\ idx' = idx + 1
    /\ UNCHANGED <<text, pc, pdf_dir, processed_ids, pdf_files, runs, ruleVars,
                   agnosticVars, consistencyVars, chainVars, parseVars, reparseVars, normalizeVars,
                   jsonl, line_num, info_rows, violation_rows, rule_rows,
                   collected_investigations, duplicate_count>>

\* The end of the run (lines 168-171).
FinishRun ==
    /\ pc = "extracting"
    /\ idx > Len(pdf_files)
    /\ runs' = runs + 1
    /\ pc' = IF runs' < MaxRuns THEN "extract_idle" ELSE "extract_done"
    /\ UNCHANGED <<text, pdf_dir, output_jsonl, processed_ids, pdf_files, idx, ruleVars,
                   agnosticVars, consistencyVars, chainVars, parseVars, reparseVars, normalizeVars,
                   batchVars>>

NextExtract == StartRun \/ ExtractPdf \/ FinishRun

SpecExtract == InitExtract /\ [][NextExtract]_vars

(***************************************************************************)
(* analyze_document_structures.py: normalize_structure                     *)
(***************************************************************************)
\* A heading is the sequence of its pieces: the number, the words, and,
\* after ALLEGATION or RECOMMENDATION, the characters "(", "S" and ")" one
\* by one.  extract_roman_numeral_structure yields capitals only.

\* A plausible slip: the stem alone is replaced, whatever follows it.
RECURSIVE SubFormStemOnly(_, _)
SubFormStemOnly(h, stem) ==
    IF h = << >> THEN << >>
    ELSE IF Head(h) = stem
         THEN <<stem, "(", "S", ")">> \o SubFormStemOnly(Tail(h), stem)
         ELSE <<Head(h)>> \o SubFormStemOnly(Tail(h), stem)

\* re.sub(stem + r'\(?S?\)?', stem + '(S)', h, flags=re.IGNORECASE)
\* (lines 43 and 45): each optional character is taken when it is there.
RECURSIVE SubForm(_, _)
SubForm(h, stem) ==
    IF h = << >> THEN << >>
    ELSE IF Head(h) = stem
         THEN LET r1 == Tail(h)
                  r2 == IF r1 # << >> /\ Head(r1) = "(" THEN Tail(r1) ELSE r1
                  r3 == IF r2 # << >> /\ Head(r2) = "S" THEN Tail(r2) ELSE r2
                  r4 == IF r3 # << >> /\ Head(r3) = ")" THEN Tail(r3) ELSE r3
              IN  <<stem, "(", "S", ")">> \o SubForm(r4, stem)
         ELSE <<Head(h)>> \o SubForm(Tail(h), stem)

\* normalize_structure (lines 35-48).
normalize_structure(sections) ==
    [k \in 1..Len(sections) |->
        SubForm(SubForm(sections[k], "ALLEGATION"), "RECOMMENDATION")]

\* Most headings of a document given to normalize_structure.
MaxSections == 2

\* The headings a document may hold.
Headings ==
    { <<"I.", "IDENTIFYING INFORMATION">>,
      <<"II.", "ALLEGATION">>,
      <<"II.", "ALLEGATION", "S">>,
      <<"II.", "ALLEGATION", "(", "S", ")">>,
      <<"III.", "ALLEGATION", "S">>,
      <<"III.", "METHODOLOGY">>,
      <<"IV.", "RECOMMENDATION">>,
      <<"IV.", "RECOMMENDATION", "S">>,
      <<"IV.", "RECOMMENDATION", "(", "S", ")">>,
      <<"II.", "ALLEGATION", "S", " AND ", "RECOMMENDATION", "S">>,
      <<"II.", "ALLEGATION", "(", "S">> }

Structures == SeqsUpTo(Headings, MaxSections)

InitNormalize ==
    /\ structure \in Structures
    /\ normalized = << >>
    /\ structures = << >>
    /\ pc = "structure"
    /\ text = << >>
    /\ record = NoRecord
    /\ RuleCodesIdle
    /\ AgnosticIdle
    /\ ConsistencyIdle
    /\ ChainIdle
    /\ BatchIdle
    /\ pdf_dir = {}
    /\ output_jsonl = << >>
    /\ processed_ids = {}
    /\ pdf_files = << >>
    /\ idx = 1
    /\ runs = 0
    /\ parsed_log = << >>
    /\ basic_info = << >>
    /\ allegations_data = << >>
    /\ rules_data = << >>
    /\ mismatch = FALSE

\* main, lines 67-70: a document with headings adds its signature.
NormalizeDocument ==
    /\ pc = "structure"
    /\ structure # << >>
    /\ normalized' = normalize_structure(structure)
    /\ structures' = Append(structures, normalized')
    /\ pc' = "normalized"
    /\ UNCHANGED <<text, structure, ruleVars, agnosticVars, consistencyVars, chainVars,
                   parseVars, reparseVars, batchVars, extractVars>>

\* main, line 67: a document without headings adds nothing.
SkipDocument ==
    /\ pc = "structure"
    /\ structure = << >>
    /\ pc' = "no_structure"
    /\ UNCHANGED <<text, ruleVars, agnosticVars, consistencyVars, chainVars, parseVars,
                   reparseVars, batchVars, extractVars, normalizeVars>>

NextNormalize == NormalizeDocument \/ SkipDocument

SpecNormalize == InitNormalize /\ [][NextNormalize]_vars

(***************************************************************************)
(* Properties                                                              *)
(***************************************************************************)
\* Some heading "II. <WORD>" of s has a word beginning with METHODOLOGY.
HasHeadingIIMethodology(s) ==
    \E i \in 1..(Len(s) - 1) : IsII(s[i]) /\ StartsWithMETHODOLOGY(UpperRun(s[i + 1]))

\* C1: get_rule_codes takes a text for structure B exactly when a heading
\* "II. <WORD>" whose word begins with METHODOLOGY exists and no heading
\* "III. INVESTIGATION" exists anywhere in the text, and for structure A
\* otherwise.
C1_StructureBIffMethodologyHeading ==
    pc = "rule_codes" =>
        (is_structure_B <=>
            (HasHeadingIIMethodology(text) /\ ~has_section_III_investigation(text)))

\* Index of the first raw citation carrying code c.
FirstMention(all, c) ==
    CHOOSE i \in 1..Len(all) :
        all[i].rule_code = c /\ \A j \in 1..(i - 1) : all[j].rule_code # c

\* C2: the codes returned by extract_rules_agnostic are pairwise distinct and
\* in the order of their first raw mention; description, conclusion and
\* status of a code are those of its first raw mention; the four returned
\* lists have equal length.
C2_DedupKeepsFirstMentionInOrder ==
    pc = "agnostic" =>
        /\ Len(unique_descriptions) = Len(unique_rules)
        /\ Len(unique_conclusions) = Len(unique_rules)
        /\ Len(unique_violations) = Len(unique_rules)
        /\ \A k, l \in 1..Len(unique_rules) : k # l => unique_rules[k] # unique_rules[l]
        /\ \A k \in 1..Len(unique_rules) :
              /\ \E i \in 1..Len(all_rules) : all_rules[i].rule_code = unique_rules[k]
              /\ LET f == all_rules[FirstMention(all_rules, unique_rules[k])]
                 IN  /\ unique_descriptions[k] = f.description
                     /\ unique_conclusions[k] = f.conclusion
                     /\ unique_violations[k] = f.violation
        /\ \A k, l \in 1..Len(unique_rules) :
              k < l => FirstMention(all_rules, unique_rules[k])
                         < FirstMention(all_rules, unique_rules[l])

\* A document with two codes, one of them mentioned twice with different
\* descriptions, conclusions and statuses.
C2_Witness ==
    /\ pc = "agnostic"
    /\ Len(unique_rules) >= 2
    /\ \E i, j \in 1..Len(all_rules) :
          /\ i < j
          /\ all_rules[i].rule_code = all_rules[j].rule_code
          /\ all_rules[i].description # all_rules[j].description
          /\ all_rules[i].conclusion # all_rules[j].conclusion
          /\ all_rules[i].violation # all_rules[j].violation

\* C3: the deduplicated citations are at most as many as the raw ones, and
\* every deduplicated code is the code of some raw citation.
C3_DedupWithinRaw ==
    pc = "agnostic" =>
        /\ Len(unique_rules) <= Len(all_rules)
        /\ \A k \in 1..Len(unique_rules) :
              \E i \in 1..Len(all_rules) : all_rules[i].rule_code = unique_rules[k]

\* A document where deduplication removed a mention and kept an FOM code.
C3_Witness ==
    /\ pc = "agnostic"
    /\ 1 <= Len(unique_rules)
    /\ Len(unique_rules) < Len(all_rules)
    /\ \E k \in 1..Len(unique_rules) : unique_rules[k] = "FOM 722-03D"

\* The blocks of s that yield a citation, as indices into the block starts.
CitedBlocks(s) ==
    LET indices == AllIdx(s, IsBlockStart)
    IN  SelectSeq([k \in 1..Len(indices) |-> k],
                  LAMBDA k : CodeOf(BlockText(s, indices, k)) # "")

\* The text from the "CONCLUSION:" label of a block to the end of the block,
\* "N/A" for a block without the label.
ConclusionToBlockEnd(sect) ==
    LET c == FirstIdx(sect, 1, IsConclusionLabel)
    IN  IF c = 0 THEN NA ELSE Sub(sect, c + 1, Len(sect))

\* No / Yes / Unknown ("N/A") by the words "not" and "established".
TriState(conclusion) ==
    IF HasNot(conclusion) /\ HasEstablished(conclusion) THEN "No"
    ELSE IF HasEstablished(conclusion) THEN "Yes"
    ELSE "N/A"

\* C6: every block-format citation of the structure-agnostic extractor has
\* as conclusion the text from the "CONCLUSION:" label to the next block
\* start, and as status No when that text holds "not" and "established", Yes
\* when it holds "established" without "not", and "N/A" otherwise (no label
\* or empty conclusion included); a single APPLICABLE RULE block citing
\* "R 400.1234" with "CONCLUSION: Violation not established." yields exactly
\* one citation, code "400.1234", status No.
C6_BlockConclusionToNextBlockStart ==
    pc = "agnostic" =>
        LET indices == AllIdx(text, IsBlockStart)
            cited   == CitedBlocks(text)
        IN  /\ Len(applicable_rules) = Len(cited)
            /\ \A n \in 1..Len(cited) :
                  LET claimed == ConclusionToBlockEnd(BlockText(text, indices, cited[n]))
                  IN  /\ applicable_rules[n].conclusion = claimed
                      /\ applicable_rules[n].violation = TriState(claimed)
            /\ text = <<"APPLICABLE RULE", "R 400.1234", "CONCLUSION:",
                        "Violation not established.">>
                 => /\ Len(applicable_rules) = 1
                    /\ applicable_rules[1].rule_code = "400.1234"
                    /\ applicable_rules[1].violation = "No"

\* The raw citations of record d of the file.
RawCitations(d) == extract_all_rules_with_status(JoinPages(lines[d].text))

\* The (conclusion, status) pairs of the occurrences of code c, in order.
Occurrences(all, c) ==
    LET occ == SelectSeq(all, LAMBDA r : r[1] = c)
    IN  [i \in 1..Len(occ) |-> <<occ[i][2], occ[i][3]>>]

\* The codes occurring more than once with statuses that are not all equal.
ConflictingCodes(all) ==
    {c \in {all[i][1] : i \in 1..Len(all)} :
        LET occ == Occurrences(all, c)
        IN  /\ Len(occ) > 1
            /\ \E i, j \in 1..Len(occ) : occ[i][2] # occ[j][2]}

\* The flagged documents are, in file order, exactly the records read so far
\* (of those in scope) with a conflicting code; each is flagged with exactly
\* its conflicting codes, each code once and with all its pairs in order.
FlagsExactlyConflicts(InScope(_)) ==
    LET flagged == SelectSeq([d \in 1..(line_no - 1) |-> d],
                       LAMBDA d : InScope(d) /\ ConflictingCodes(RawCitations(d)) # {})
    IN  /\ Len(inconsistent_docs) = Len(flagged)
        /\ \A n \in 1..Min(Len(flagged), Len(inconsistent_docs)) :
              LET inc == inconsistent_docs[n].inconsistencies
                  all == RawCitations(flagged[n])
              IN  /\ inconsistent_docs[n].sha256 = ShaHead(lines[flagged[n]].sha256)
                  /\ {inc[k].rule : k \in 1..Len(inc)} = ConflictingCodes(all)
                  /\ \A k, l \in 1..Len(inc) : k # l => inc[k].rule # inc[l].rule
                  /\ \A k \in 1..Len(inc) :
                        inc[k].statuses = Occurrences(all, inc[k].rule)

C5_RecordStatusTriState ==
    pc = "parsed" =>
        \A i \in 1..Len(allegations_data) :
            LET c == allegations_data[i].conclusion
                v == allegations_data[i].violation_established
            IN  IF HasNot(c) /\ HasEstablished(c) THEN v = "No"
                ELSE IF HasEstablished(c) THEN v = "Yes"
                ELSE v \in {"Unknown", "N/A"}

\* C7: the records returned by parse_single_record are numbered 1..n without
\* gap or repeat, in the order in which the quads were extracted.
C7_OrdinalsContiguous ==
    pc = "parsed" =>
        /\ Len(allegations_data) = Len(allegations)
        /\ \A i \in 1..Len(allegations_data) :
              /\ allegations_data[i].number = i
              /\ allegations_data[i].allegation = allegations[i]
              /\ allegations_data[i].investigation = investigations[i]
              /\ allegations_data[i].analysis = analyses[i]
              /\ allegations_data[i].conclusion = conclusions[i]

\* A parsed document with two records that tell different allegations.
C7_Witness ==
    /\ pc = "parsed"
    /\ Len(allegations_data) = 2
    /\ allegations_data[1].allegation # allegations_data[2].allegation

\* The texts made of a Methodology heading, k complete cycles and nothing
\* else up to an optional stop.
CompleteCycleTexts ==
    { h \o Flatten([n \in 1..Len(style) |-> IF style[n] = "upper" THEN UpperCycle(n)
                                                                   ELSE TitleCycle(n)])
        \o stop :
        h \in {<<"Methodology">>, <<"II.", "METHODOLOGY">>},
        stop \in {<< >>, <<"IV.RECOMMENDATION">>},
        style \in SeqsUpTo({"upper", "title"}, MaxCycles) }

\* The number of cycles of such a text.
CyclesOf(s) == Cardinality({i \in 1..Len(s) : ExactCI(s[i], "ALLEGATION")})

\* C8: a Methodology..IV span of k complete ALLEGATION, INVESTIGATION,
\* ANALYSIS, CONCLUSION ... ESTABLISHED cycles yields exactly k records, the
\* i-th holding the allegation, investigation, analysis and conclusion text
\* of the i-th cycle.
C8_CompleteCyclesYieldRecords ==
    (pc = "parsed" /\ text \in CompleteCycleTexts) =>
        /\ Len(allegations_data) = CyclesOf(text)
        /\ \A i \in 1..Len(allegations_data) :
              /\ allegations_data[i].number = i
              /\ allegations_data[i].allegation = <<Told(i).a>>
              /\ allegations_data[i].investigation = <<Told(i).b>>
              /\ allegations_data[i].analysis = <<Told(i).c>>
              /\ Len(allegations_data[i].conclusion) = 2
              /\ allegations_data[i].conclusion[1] = Told(i).d
              /\ ContainsEstablished(allegations_data[i].conclusion[2])

\* C9: the mismatch flag of parse_single_record is true exactly when the
\* number of records differs from the number of rule rows; with or without a
\* mismatch the parse returns, with every extracted quad and every
\* extracted rule code.
C9_MismatchIffCountsDiffer ==
    /\ pc # "raised"
    /\ pc = "parsed" =>
          /\ mismatch <=> (Len(allegations_data) # Len(rules_data))
          /\ Len(allegations_data) = Len(allegations)
          /\ Len(rules_data) = Len(rule_codes)
          /\ \A i \in 1..Len(rules_data) : rules_data[i].rule_code = rule_codes[i]
          /\ \A i \in 1..Len(allegations_data) :
                allegations_data[i].allegation = allegations[i]

\* A parsed document with fewer records than rule rows, neither empty.
C9_Witness ==
    /\ pc = "parsed"
    /\ mismatch
    /\ 1 <= Len(allegations_data)
    /\ Len(allegations_data) < Len(rules_data)

\* The four lists of the chain extractor.
ChainLists == <<allegations, investigations, analyses, conclusions>>

\* What holds of the extractors' results in every state.
NeverRaisesState ==
    /\ pc # "raised"
    /\ Len(investigations) = Len(allegations)
    /\ Len(analyses) = Len(allegations)
    /\ Len(conclusions) = Len(allegations)
    /\ (pc \in {"chain_returned", "parsed"}
          /\ ~\E k \in 1..Len(text) : IsMethodology(text[k]))
          => ChainLists = << << >>, << >>, << >>, << >> >>
    /\ (pc = "parsed"
          /\ \/ ~\E k \in 1..Len(text) : ContainsII(text[k]) \/ ContainsIII(text[k])
             \/ ~\E k \in 1..Len(text) :
                    IsBlockStart(text[k]) \/ DecimalCode(text[k]) # "")
          => rule_codes = << >> /\ descriptions = << >>

\* What holds of every turn of the loop of the chain extractor.
NeverRaisesStep ==
    pc = "chain_loop" =>
        /\ pc' \in {"chain_loop", "chain_returned"}
        /\ pc' = "chain_returned" => ChainLists' = ChainLists
        /\ pc' = "chain_loop" =>
              /\ Len(allegations') = Len(allegations) + 1
              /\ \A i \in 1..4 : Sub(ChainLists'[i], 1, Len(allegations)) = ChainLists[i]

\* C10: for every text the chain extractor and the rule-code extractor
\* return collections and never raise: without "Methodology" the chain
\* extractor returns four empty lists, a marker missing part-way makes it
\* return the quads completed so far, and without section markers the rule
\* extractor returns empty lists.
C10_ExtractorsNeverRaise == []NeverRaisesState /\ [][NeverRaisesStep]_vars

\* The chain extractor has returned one completed quad after a turn that
\* found an allegation and an investigation but no conclusion.
C10_Witness ==
    /\ pc = "chain_returned"
    /\ Len(conclusions) = 1
    /\ remaining_text # << >>
    /\ ExactCS(Head(remaining_text), "ANALYSIS", "title")
    /\ ~ConclusionMatch(remaining_text).found

\* The least position p >= from at which seg occurs in s as a run of
\* consecutive words; 0 when there is none.  The empty text occurs anywhere.
SegmentAt(s, seg, from) ==
    LET hits == {p \in from..(Len(s) - Len(seg) + 1) :
                    \A k \in 1..Len(seg) : s[p + k - 1] = seg[k]}
    IN  IF hits = {} THEN 0 ELSE CHOOSE p \in hits : \A q \in hits : p <= q

\* The position after the leftmost placement of the texts of segs in s, one
\* after the other from position "from" on; 0 when they do not occur in s in
\* that order.
RECURSIVE InOrderFrom(_, _, _)
InOrderFrom(s, segs, from) ==
    IF segs = << >> THEN from
    ELSE LET p == SegmentAt(s, Head(segs), from)
         IN  IF p = 0 THEN 0 ELSE InOrderFrom(s, Tail(segs), p + Len(Head(segs)))

\* The text a turn of the loop has consumed.
Consumed == Sub(remaining_text, 1, Len(remaining_text) - Len(remaining_text'))

\* C18: the cursor only moves forward.  A turn of the loop leaves a suffix of
\* the remaining text, a proper one whenever it emits a quad, and the
\* allegation, investigation, analysis and conclusion it emits occur in that
\* order inside the text it has consumed, so that the quad lies before
\* everything a later turn can find.
C18_CursorOnlyMovesForward ==
    [][pc = "chain_loop" =>
          /\ Len(remaining_text') <= Len(remaining_text)
          /\ remaining_text' = Sub(remaining_text, Len(Consumed) + 1, Len(remaining_text))
          /\ Len(allegations') > Len(allegations) =>
                /\ Len(Consumed) >= 1
                /\ InOrderFrom(Consumed,
                               <<allegations'[Len(allegations')],
                                 investigations'[Len(investigations')],
                                 analyses'[Len(analyses')],
                                 conclusions'[Len(conclusions')]>>, 1) # 0]_vars

\* Two quads have been emitted, the second with an analysis of its own.
C18_Witness ==
    /\ pc = "chain_loop"
    /\ Len(allegations) = 2
    /\ analyses[2] # << >>
    /\ conclusions[1] # conclusions[2]

\* The text left after the allegation of s, and after the investigation that
\* follows it: the cursor at the point where the analysis is looked for.
CursorAfterAllegation(s) == Sub(s, AllegationMatch(s).j, Len(s))

CursorAfterInvestigation(s) ==
    LET s1 == CursorAfterAllegation(s)
    IN  Sub(s1, InvestigationMatch(s1).j, Len(s1))

\* The cursor at the point where the conclusion is looked for: past the
\* analysis when there is one.
CursorBeforeConclusion(s) ==
    LET s2 == CursorAfterInvestigation(s)
        c  == AnalysisMatch(s2)
    IN  IF c.found THEN Sub(s2, c.j, Len(s2)) ELSE s2

\* Allegation, investigation and conclusion are all found in turn from s.
RequiredMarkersFound(s) ==
    /\ AllegationMatch(s).found
    /\ InvestigationMatch(CursorAfterAllegation(s)).found
    /\ ConclusionMatch(CursorBeforeConclusion(s)).found

\* The four lists have the same length.
EqualLengths ==
    /\ Len(investigations) = Len(allegations)
    /\ Len(analyses) = Len(allegations)
    /\ Len(conclusions) = Len(allegations)

\* C19, every turn of the loop: it emits one whole quad and goes on when the
\* three required markers are found, and otherwise emits nothing and ends
\* the loop; a turn that finds no analysis still emits its quad, with an
\* empty analysis, and its conclusion is the one found from the cursor the
\* investigation left.
C19_TurnEmitsWholeQuadOrStops ==
    [][pc = "chain_loop" =>
          IF RequiredMarkersFound(remaining_text)
          THEN /\ pc' = "chain_loop"
               /\ Len(allegations') = Len(allegations) + 1
               /\ Len(investigations') = Len(investigations) + 1
               /\ Len(analyses') = Len(analyses) + 1
               /\ Len(conclusions') = Len(conclusions) + 1
               /\ ~AnalysisMatch(CursorAfterInvestigation(remaining_text)).found =>
                     LET s2 == CursorAfterInvestigation(remaining_text)
                         d  == ConclusionMatch(s2)
                     IN  /\ analyses'[Len(analyses')] = << >>
                         /\ conclusions'[Len(conclusions')] = Clean(Sub(s2, d.from, d.j))
                         /\ remaining_text' = Sub(s2, d.j + 1, Len(s2))
          ELSE /\ pc' = "chain_returned"
               /\ UNCHANGED <<allegations, investigations, analyses, conclusions>>]_vars

\* C19, every state: no partial quad is ever held.
C19_StopsAtFirstMissingMarker ==
    [](EqualLengths) /\ C19_TurnEmitsWholeQuadOrStops

\* The loop has ended on a missing marker, with text left over, after a quad
\* without analysis.
C19_Witness ==
    /\ pc = "chain_returned"
    /\ Len(allegations) = 1
    /\ analyses[1] = << >>
    /\ conclusions[1] # << >>
    /\ remaining_text # << >>
    /\ ~AllegationMatch(remaining_text).found

\* The words of the text that open a block, in source order.
BlockStarts == AllIdx(text, IsBlockStart)

\* Where block k ends by the rule of the specification: at the next block
\* start or, for the last block, 2000 characters after its own start, within
\* the text.
BlockCloses(k) ==
    IF k < Len(BlockStarts) THEN Off(text, BlockStarts[k + 1])
    ELSE Min(TextLen(text), Off(text, BlockStarts[k]) + Lookahead)

\* The words of the text that begin inside block k.
BlockWords(k) ==
    {i \in 1..Len(text) :
        Off(text, i) >= Off(text, BlockStarts[k]) /\ Off(text, i) < BlockCloses(k)}

\* The code block k must yield: its first decimal code if it has one, else
\* its first FOM code, else none ("").
BlockCode(k) ==
    LET ds == {i \in BlockWords(k) : DecimalCode(text[i]) # ""}
        fs == {i \in BlockWords(k) : FomCode(text[i]) # ""}
    IN  IF ds # {} THEN DecimalCode(text[CHOOSE i \in ds : \A j \in ds : i <= j])
        ELSE IF fs # {} THEN FomCode(text[CHOOSE i \in fs : \A j \in fs : i <= j])
        ELSE ""

\* The codes the blocks must yield, in source order, one per block that has
\* a code.
BlockCodes ==
    LET cited == SelectSeq([k \in 1..Len(BlockStarts) |-> k], LAMBDA k : BlockCode(k) # "")
    IN  [j \in 1..Len(cited) |-> BlockCode(cited[j])]

\* C20: in block format every "applicable rule" / "applicable policy" opens
\* one block, which runs to the next block start or, when it is the last, to
\* min(text length, start + 2000); the blocks follow each other without
\* overlap; and the citations are, in source order, one per block that holds
\* a code, the decimal code before the FOM code.  The same holds of the
\* blocks of extract_all_rules_with_status.
C20_BlockFormat ==
    pc = "agnostic" =>
        /\ \A k \in 1..Len(BlockStarts) :
              /\ BlockEnd(text, BlockStarts, k) = BlockCloses(k)
              /\ Off(text, BlockStarts[k]) < BlockCloses(k)
              /\ k < Len(BlockStarts) => BlockCloses(k) <= Off(text, BlockStarts[k + 1])
              /\ BlockText(text, BlockStarts, k)
                    = [j \in 1..Cardinality(BlockWords(k)) |-> text[BlockStarts[k] + j - 1]]
        /\ [j \in 1..Len(applicable_rules) |-> applicable_rules[j].rule_code] = BlockCodes
        /\ LET all == extract_all_rules_with_status(text)
           IN  [j \in 1..Len(all) |-> all[j][1]] = BlockCodes

\* A text of two blocks: the first has no code and yields nothing, the second
\* names an FOM code before a decimal code and is cited by the decimal code.
C20_Witness ==
    /\ pc = "agnostic"
    /\ Len(BlockStarts) = 2
    /\ BlockCode(1) = ""
    /\ \E f, d \in BlockWords(2) :
          f < d /\ FomCode(text[f]) # "" /\ DecimalCode(text[d]) # ""
    /\ Len(applicable_rules) = 1
    /\ applicable_rules[1].rule_code = "400.1234"

\* The text is a special investigation report that cites one code twice in
\* the tabular format, the first mention followed by a conclusion resolving
\* to Yes and the second by one resolving to No.
TabularTwiceYesThenNo(s) ==
    LET ms == AllIdx(s, IsStrictRuleCode)
    IN  /\ IsSIR(s)
        /\ Len(ms) = 2
        /\ DecimalCode(s[ms[1]]) = DecimalCode(s[ms[2]])
        /\ TriState(ConclusionToBlockEnd(Sub(s, ms[1], ms[2] - 1))) = "Yes"
        /\ TriState(ConclusionToBlockEnd(Sub(s, ms[2], Len(s)))) = "No"

\* C14: a document citing the same code twice in the tabular format, with
\* conclusions resolving to Yes and then to No, is deduplicated to a single
\* citation of that code with mention count 2, and the consistency checker
\* flags the document.
C14_TabularTwiceIsFlagged ==
    \A d \in 1..(line_no - 1) :
        LET s    == JoinPages(lines[d].text)
            code == DecimalCode(s[AllIdx(s, IsStrictRuleCode)[1]])
            u    == Unique(AllRules(s), {})
        IN  TabularTwiceYesThenNo(s) =>
              /\ Len(u) = 1
              /\ u[1].rule_code = code
              /\ Duplicates(AllRules(s))[code] = 2
              /\ \E n \in 1..Len(inconsistent_docs) :
                    inconsistent_docs[n].sha256 = ShaHead(lines[d].sha256)

\* The part of C14 the code satisfies: one citation, mention count 2.
C14_TabularTwiceIsDeduplicated ==
    \A d \in 1..(line_no - 1) :
        LET s    == JoinPages(lines[d].text)
            code == DecimalCode(s[AllIdx(s, IsStrictRuleCode)[1]])
            u    == Unique(AllRules(s), {})
        IN  TabularTwiceYesThenNo(s) =>
              /\ Len(u) = 1
              /\ u[1].rule_code = code
              /\ Duplicates(AllRules(s))[code] = 2

\* The word holds no section marker, heading number, field label or date.
Unmarked(w) ==
    /\ Spellings(w) = {}
    /\ Captures(w) = {}
    /\ AdminCaptures(w) = {}
    /\ DateIn(w) = NoDate
    /\ ~HasRECOMMENDATION(w)
    /\ w \notin {"I.", "II.", "III.", "IV.", "IV.RECOMMENDATION"}

\* The fields of basic_info that are extracted from the text.
ExtractedFields == DOMAIN basic_info \ {"File_Name", "SHA256"}

C12_ReparseYieldsSameResult ==
    \A i, j \in 1..Len(parsed_log) :
        parsed_log[i].record = parsed_log[j].record =>
            parsed_log[i].result = parsed_log[j].result

\* The same record was parsed first and third, another one between, and both
\* have allegation records.
C12_Witness ==
    /\ Len(parsed_log) = 3
    /\ parsed_log[1].record = parsed_log[3].record
    /\ parsed_log[1].record # parsed_log[2].record
    /\ parsed_log[1].result.allegations # << >>
    /\ parsed_log[2].result.allegations # << >>
    /\ parsed_log[1].result.rules # << >>

\* C11: a line of the file whose handling raises is counted in error_count
\* and skipped: no row is added to any of the three outputs, the set of
\* collected investigation numbers is unchanged, no other counter moves, and
\* the loop goes on with the next line.
C11_ErrorsCountedAndSkipped ==
    [][(pc = "batch" /\ line_num <= Len(jsonl) /\ Raises(jsonl[line_num])) =>
          /\ error_count' = error_count + 1
          /\ UNCHANGED <<info_rows, violation_rows, rule_rows, collected_investigations,
                         processed_count, skipped_count, duplicate_count>>
          /\ line_num' = line_num + 1
          /\ pc' = "batch"]_vars

\* A file of three lines has been read: the second, an object without
\* digest, raised, and the reports before and after it were processed.
C11_Witness ==
    /\ pc = "written"
    /\ Len(jsonl) = 3
    /\ jsonl[2].valid
    /\ Raises(jsonl[2])
    /\ error_count = 1
    /\ processed_count = 2
    /\ Len(info_rows) = 2

\* The orderings of a file: the same lines, each as often, in any order.
Orderings(file) ==
    { [i \in 1..Len(file) |-> file[p[i]]] :
        p \in { q \in [1..Len(file) -> 1..Len(file)] :
                    \A i, j \in 1..Len(file) : q[i] = q[j] => i = j } }

\* The rows of a sequence, as a set.
RowSet(rows) == { rows[i] : i \in 1..Len(rows) }

\* The three sets of rows process_jsonl leaves after reading a file.
Outputs(file) ==
    [info |-> RowSet(ProcessAll(BatchStart, file).info_rows),
     violation |-> RowSet(ProcessAll(BatchStart, file).violation_rows),
     rule |-> RowSet(ProcessAll(BatchStart, file).rule_rows)]

\* C13: the rows process_jsonl produces do not depend on the order of the
\* records: once a file has been read, reading the same lines in any other
\* order gives the same sets of info, violation and rule rows.
C13_OrderDoesNotMatter ==
    pc = "written" =>
        \A other \in Orderings(jsonl) :
            Outputs(other) = [info |-> RowSet(info_rows),
                              violation |-> RowSet(violation_rows),
                              rule |-> RowSet(rule_rows)]

\* The rows a step of the loop has appended to a list of rows.
Appended(old, new) == Sub(new, Len(old) + 1, Len(new))

\* The header fields of a row of output.csv are those of basic_info.
SameHeader(row, info) ==
    \A f \in DOMAIN info \ {"SHA256"} : row[f] = info[f]

\* The rows of violations.csv are the allegation records, in order.
SameViolations(rows, adata) ==
    /\ Len(rows) = Len(adata)
    /\ \A i \in 1..Len(rows) :
          /\ rows[i].Allegation = adata[i].allegation
          /\ rows[i].Investigation = adata[i].investigation
          /\ rows[i].Analysis = adata[i].analysis
          /\ rows[i].Conclusion = adata[i].conclusion
          /\ rows[i].Violation_Established = adata[i].violation_established

\* The rows of rules.csv are the rule records, in order and in number.
SameRules(rows, rdata) ==
    /\ Len(rows) = Len(rdata)
    /\ \A i \in 1..Len(rows) :
          /\ rows[i].Rule = rdata[i].rule_code
          /\ rows[i].Description = rdata[i].description
          /\ rows[i].Conclusion = rdata[i].conclusion
          /\ rows[i].Violation_Established = rdata[i].violation_established

\* C17: whenever process_jsonl processes a record as a report, the header
\* fields, the violation rows and the rule rows it writes are those
\* parse_single_record returns for the same record.
C17_BatchRowsAreParseSingleRecord ==
    [][(pc = "batch" /\ processed_count' = processed_count + 1) =>
          /\ SameHeader(info_rows'[Len(info_rows')],
                        parse_single_record(jsonl[line_num].obj).basic_info)
          /\ SameViolations(Appended(violation_rows, violation_rows'),
                            parse_single_record(jsonl[line_num].obj).allegations)
          /\ SameRules(Appended(rule_rows, rule_rows'),
                       parse_single_record(jsonl[line_num].obj).rules)]_vars

\* The steps of parse_single_record return what the function of the record
\* gives.
ParsedIsFunctionOfRecord ==
    pc = "parsed" => Result = parse_single_record(record)

\* C16: the output file is append-only and a digest is written once: a step
\* of process_directory keeps every line there is, and a record it appends
\* carries a digest that no record of the file, from an earlier run or from
\* this one, carries.
C16_AppendOnlyOneRecordPerDigest ==
    [][/\ Len(output_jsonl') >= Len(output_jsonl)
       /\ Sub(output_jsonl', 1, Len(output_jsonl)) = output_jsonl
       /\ \A k \in (Len(output_jsonl) + 1)..Len(output_jsonl') :
             output_jsonl'[k].obj.sha256 \notin load_processed_ids(output_jsonl)]_vars

\* The part of C16 that holds: no line is changed or removed, and a file
\* whose digest has a record from before the run is skipped.
C16_AppendOnlySkipsEarlierRuns ==
    [][/\ Len(output_jsonl') >= Len(output_jsonl)
       /\ Sub(output_jsonl', 1, Len(output_jsonl)) = output_jsonl
       /\ \A k \in (Len(output_jsonl) + 1)..Len(output_jsonl') :
             output_jsonl'[k].obj.sha256 \notin processed_ids]_vars

\* C29: after any number of lines, every line handled is counted in exactly
\* one of processed, skipped, duplicate and error, and there are as many
\* info rows as processed records.
C29_EveryLineCountedOnce ==
    pc \in {"batch", "written"} =>
        /\ processed_count + skipped_count + duplicate_count + error_count = line_num - 1
        /\ Len(info_rows) = processed_count

\* A file of three lines has been read: a report, a duplicate of it and a
\* document that is no report.
C29_Witness ==
    /\ pc = "written"
    /\ line_num = 4
    /\ processed_count = 1
    /\ duplicate_count = 1
    /\ skipped_count = 1

\* The Investigation # process_jsonl finds in the record of a line.
LineNumber(line) == RowNumber(JoinPages(line.obj.text))

\* A record before line k, in input order, carries the number n.
SeenBefore(k, n) ==
    \E j \in 1..(k - 1) : ~Raises(jsonl[j]) /\ LineNumber(jsonl[j]) = n

\* No row is added to any of the three outputs.
NoRowAdded == UNCHANGED <<info_rows, violation_rows, rule_rows>>

\* C30: at most one info row per Investigation #.  The first record in input
\* order with a number is processed; a later record with the same number is
\* counted as a duplicate and adds no row; a record without a number is
\* counted as skipped, adds no row and does not enter the collected numbers.
C30_OneInfoRowPerNumber ==
    [][(pc = "batch" /\ line_num <= Len(jsonl) /\ ~Raises(jsonl[line_num])) =>
          /\ IF LineNumber(jsonl[line_num]) = ""
             THEN /\ skipped_count' = skipped_count + 1
                  /\ NoRowAdded
                  /\ collected_investigations' = collected_investigations
                  /\ "" \notin collected_investigations'
             ELSE IF SeenBefore(line_num, LineNumber(jsonl[line_num]))
             THEN /\ duplicate_count' = duplicate_count + 1
                  /\ NoRowAdded
             ELSE /\ processed_count' = processed_count + 1
                  /\ Len(info_rows') = Len(info_rows) + 1
                  /\ info_rows'[Len(info_rows')].Investigation_No =
                        LineNumber(jsonl[line_num])
          /\ \A i, j \in 1..Len(info_rows') :
                info_rows'[i].Investigation_No = info_rows'[j].Investigation_No => i = j]_vars

\* Two different documents with the same number were read, with a document
\* without number between them: one info row, one duplicate, one skipped.
C30_Witness ==
    /\ pc = "written"
    /\ Len(jsonl) = 3
    /\ jsonl[1].obj # jsonl[3].obj
    /\ ~Raises(jsonl[1]) /\ ~Raises(jsonl[2]) /\ ~Raises(jsonl[3])
    /\ LineNumber(jsonl[1]) = LineNumber(jsonl[3])
    /\ LineNumber(jsonl[2]) = ""
    /\ Len(info_rows) = 1
    /\ info_rows[1].File_Name = FileName(jsonl[1].obj)
    /\ collected_investigations = {LineNumber(jsonl[1])}

\* The sum of the counts of the codes of a sequence.
RECURSIVE SumOfCounts(_, _)
SumOfCounts(codes, d) ==
    IF codes = << >> THEN 0 ELSE d[Head(codes)] + SumOfCounts(Tail(codes), d)

\* C28: the duplicates map of extract_rules_agnostic has exactly the returned
\* codes as keys, gives each the number of raw citations that carry it (at
\* least 1), and its counts sum to the number of raw citations, the raw
\* sequence being the block citations followed by the tabular ones.
C28_DuplicatesCountRawCitations ==
    pc = "agnostic" =>
        /\ all_rules = applicable_rules \o rule_code_rules
        /\ DOMAIN duplicates = Range(unique_rules)
        /\ \A c \in DOMAIN duplicates :
              /\ duplicates[c] = Cardinality({i \in 1..Len(all_rules) :
                                                 all_rules[i].rule_code = c})
              /\ duplicates[c] >= 1
        /\ SumOfCounts(unique_rules, duplicates) = Len(all_rules)

\* A text with block and tabular citations, one code cited more than once
\* and another one once.
C28_Witness ==
    /\ pc = "agnostic"
    /\ applicable_rules # << >>
    /\ rule_code_rules # << >>
    /\ \E c \in DOMAIN duplicates : duplicates[c] >= 2
    /\ \E c \in DOMAIN duplicates : duplicates[c] = 1

\* C22: parse_single_record gives one rule row per extracted citation, in
\* order, and pairs it by ordinal: row i has the conclusion and the status of
\* allegation record i, and "N/A" for both when there is no record i.
C22_RuleRowsPairedByOrdinal ==
    pc = "parsed" =>
        /\ Len(rules_data) = Len(rule_codes)
        /\ Len(rule_codes) = Len(descriptions)
        /\ \A i \in 1..Len(rules_data) :
              /\ rules_data[i].number = i
              /\ rules_data[i].rule_code = rule_codes[i]
              /\ rules_data[i].description = descriptions[i]
              /\ IF i <= Len(allegations_data)
                 THEN /\ rules_data[i].conclusion = allegations_data[i].conclusion
                      /\ rules_data[i].violation_established =
                            allegations_data[i].violation_established
                 ELSE /\ rules_data[i].conclusion = NA
                      /\ rules_data[i].violation_established = "N/A"

\* A record with allegation records and more citations than records: the
\* first rule row is paired, the last one is not.
C22_Witness ==
    /\ pc = "parsed"
    /\ Len(allegations_data) >= 1
    /\ Len(rules_data) > Len(allegations_data)
    /\ rules_data[1].conclusion = allegations_data[1].conclusion
    /\ rules_data[Len(rules_data)].conclusion = NA

\* C27: the chain extractor terminates.  A turn of the loop either leaves the
\* loop or removes at least one character from the remaining text; the
\* quads emitted and the characters left never exceed the characters of the
\* span from Methodology to the stop; and the call returns.
C27_ChainExtractorTerminates ==
    /\ [][pc = "chain_loop" =>
            \/ pc' = "chain_returned"
            \/ TextLen(remaining_text') < TextLen(remaining_text)]_vars
    /\ [](pc \in {"chain_loop", "chain_returned", "chain_done"} =>
            Len(allegations) + TextLen(remaining_text) <= TextLen(ChainSpan(text)))
    /\ <>(pc = "chain_done")

\* The loop has made MaxCycles turns that emitted a quad and has been left
\* with the span used up.
C27_Witness ==
    /\ pc = "chain_done"
    /\ Len(allegations) = MaxCycles
    /\ remaining_text = << >>

\* w reads marker m in letter case c with at most 2 errors: the number the
\* pattern names, included.
WithinEditBound(w, m, c) ==
    \E r \in Spellings(w) : r.m = m /\ r.e + CaseDist(r.c, c) <= FuzzyLimit

\* Claim C25: a heading token with up to 2 character-level errors is found
\* as that marker: whenever the text left to the loop holds ALLEGATION
\* followed by a word within 2 errors of INVESTIGATION, the search of
\* lines 144-146 finds the allegation.
C25_TwoErrorsAreFound ==
    (/\ pc = "chain_loop"
     /\ \E i \in 1..Len(remaining_text), j \in 1..Len(remaining_text) :
            /\ i < j
            /\ ExactCS(remaining_text[i], "ALLEGATION", "upper")
            /\ WithinEditBound(remaining_text[j], "INVESTIGATION", "upper"))
        => AllegationMatch(remaining_text).found

\* What the code does: a marker with at most one error is found.
C25_OneErrorIsFound ==
    (/\ pc = "chain_loop"
     /\ \E i \in 1..Len(remaining_text), j \in 1..Len(remaining_text) :
            /\ i < j
            /\ ExactCS(remaining_text[i], "ALLEGATION", "upper")
            /\ FuzzyCS(remaining_text[j], "INVESTIGATION", "upper"))
        => AllegationMatch(remaining_text).found

\* The word opens with the column label "Rule Code".
StartsRuleCode(w) ==
    w \in {"Rule Code & CCI Rule 400.1234", "Rule Code & CCI Rule 400.5678",
            "Rule Code Placement"}

\* The codes of the words of s that satisfy Hit, in order.
CodesWhere(s, Hit(_)) ==
    LET ms == SelectSeq(s, Hit) IN [k \in 1..Len(ms) |-> DecimalCode(ms[k])]

\* The codes written after "Rule Code", in order.
StrictCodes(s) == CodesWhere(s, LAMBDA w : StartsRuleCode(w) /\ DecimalCode(w) # "")

\* The codes written after a bare "R", in order.
BareCodes(s) == CodesWhere(s, LAMBDA w : ~StartsRuleCode(w) /\ IsBareR(w))

\* Claim C21: the tabular extractors return the codes of the strict
\* 'Rule Code ...' pattern alone when it matches anywhere, and the codes of
\* the bare 'R <code>' pattern exactly when it matches nowhere; a 'Rule Code'
\* header without a numeric code yields no citation; and every tabular
\* citation has conclusion and status 'N/A'.
C21_FallbackOnlyWithoutStrict ==
    pc = "agnostic" =>
        LET got == [k \in 1..Len(rule_code_rules) |-> rule_code_rules[k].rule_code]
        IN  /\ got = IF StrictCodes(text) # << >> THEN StrictCodes(text)
                     ELSE BareCodes(text)
            /\ extract_rule_code_format(text)[1] = got
            /\ Len(got) <= Cardinality({i \in 1..Len(text) : text[i] # "Rule Code Placement"})
            /\ \A k \in 1..Len(rule_code_rules) :
                  /\ rule_code_rules[k].conclusion = NA
                  /\ rule_code_rules[k].violation = "N/A"

\* A text with a strict match, a bare 'R <code>' and the header
\* 'Rule Code Placement': the strict match alone is returned.
C21_Witness ==
    /\ pc = "agnostic"
    /\ Len(rule_code_rules) = 1
    /\ BareCodes(text) # << >>
    /\ \E i \in 1..Len(text) : text[i] = "Rule Code Placement"

\* A text where the header is the only 'Rule Code' and the fallback is used.
C21_WitnessFallback ==
    /\ pc = "agnostic"
    /\ rule_code_rules # << >>
    /\ StrictCodes(text) = << >>
    /\ \E i \in 1..Len(text) : text[i] = "Rule Code Placement"

\* Claim C23: for every text the raw extractor of the consistency checker
\* and the block extractor of the structure-agnostic parser give the same
\* sequence of rule codes with the same violation status for each mention.
C23_SameCodesAndStatuses ==
    pc = "agnostic" =>
        LET raw == extract_all_rules_with_status(text)
        IN  /\ Len(raw) = Len(applicable_rules)
            /\ \A k \in 1..Len(raw) :
                  /\ raw[k][1] = applicable_rules[k].rule_code
                  /\ raw[k][3] = applicable_rules[k].violation

\* What holds: the same codes in the same order, and the same status for
\* every mention whose conclusion the checker did not cut short.
C23_SameCodesAndUncutStatuses ==
    pc = "agnostic" =>
        LET raw == extract_all_rules_with_status(text)
        IN  /\ Len(raw) = Len(applicable_rules)
            /\ \A k \in 1..Len(raw) :
                  /\ raw[k][1] = applicable_rules[k].rule_code
                  /\ raw[k][2] = applicable_rules[k].conclusion
                        => raw[k][3] = applicable_rules[k].violation

\* The lines of the text that name administrator and designee.
AdminLines(s) == {i \in 1..Len(s) : AdminCaptures(s[i]) # {}}

\* Claim C24: the pair returned by extract_admin_and_designee is always
\* (designee, administrator), each name the one written under its own
\* label (every such line of the texts names Bob Ray as designee and Ann Lee
\* as administrator), and both are empty when no ordering matches.
C24_EachNameUnderItsLabel ==
    pc = "parsed" =>
        LET s == JoinPages(record.text)
        IN  IF AdminLines(s) = {}
            THEN basic_info.Licensee_Designee = "" /\ basic_info.Administrator = ""
            ELSE basic_info.Licensee_Designee = "Bob Ray"
                    /\ basic_info.Administrator = "Ann Lee"

\* What holds: the same for every text that names the two on one line only,
\* or that opens with the ordering Administrator, Licensee Designee.
C24_RolesOfASingleLine ==
    pc = "parsed" =>
        LET s == JoinPages(record.text)
        IN  IF AdminLines(s) = {}
            THEN basic_info.Licensee_Designee = "" /\ basic_info.Administrator = ""
            ELSE (Cardinality(AdminLines(s)) = 1 \/ AdminMatch(<<s[1]>>, 1).found) =>
                    /\ basic_info.Licensee_Designee = "Bob Ray"
                    /\ basic_info.Administrator = "Ann Lee"

\* The part "the three orderings are mutually exclusive": no text is
\* matched by the patterns of two orderings.
C24_OrderingsExclusive ==
    pc = "parsed" =>
        LET s == JoinPages(record.text)
        IN  Cardinality({p \in 1..3 : AdminMatch(s, p).found}) <= 1

\* The heading with every ALLEGATION and RECOMMENDATION in the singular:
\* a plural "S" or a "(S)" straight after the word is dropped.
RECURSIVE Singular(_)
Singular(h) ==
    IF h = << >> THEN << >>
    ELSE IF Head(h) \in {"ALLEGATION", "RECOMMENDATION"}
         THEN LET r == Tail(h)
              IN  IF Len(r) >= 3 /\ Sub(r, 1, 3) = <<"(", "S", ")">>
                  THEN <<Head(h)>> \o Singular(Sub(r, 4, Len(r)))
                  ELSE IF r # << >> /\ Head(r) = "S"
                  THEN <<Head(h)>> \o Singular(Tail(r))
                  ELSE <<Head(h)>> \o Singular(r)
         ELSE <<Head(h)>> \o Singular(Tail(h))

\* The two lists of headings differ only in the singular, plural or "(S)"
\* form of ALLEGATION and RECOMMENDATION.
SameButForm(a, b) ==
    /\ Len(a) = Len(b)
    /\ \A k \in 1..Len(a) : Singular(a[k]) = Singular(b[k])

\* The number and the words of a heading, without the characters of a
\* plural form.
Words(h) == SelectSeq(h, LAMBDA x : x \notin {"(", "S", ")"})

\* Claim C26: normalize_structure gives the same signature to lists of
\* headings that differ only in the singular, plural or "(S)" form of
\* ALLEGATION or RECOMMENDATION, keeps the number and the order of the
\* headings, and leaves an already normalized signature as it is.
C26_NormalizeStructure ==
    pc = "normalized" =>
        /\ Len(normalized) = Len(structure)
        /\ \A k \in 1..Len(structure) :
              Words(normalized[k]) = Words(structure[k])
        /\ \A other \in Structures :
              SameButForm(other, structure) => normalize_structure(other) = normalized
        /\ normalize_structure(normalized) = normalized
        /\ structures = <<normalized>>

\* "III. ALLEGATIONS" after a heading of another kind: the signature is
\* that of "III. ALLEGATION" and differs from the headings given.
C26_Witness ==
    /\ pc = "normalized"
    /\ Len(structure) = MaxSections
    /\ structure[Len(structure)] = <<"III.", "ALLEGATION", "S">>
    /\ normalized # structure
    /\ normalized[Len(structure)] = <<"III.", "ALLEGATION", "(", "S", ")">>

====
